---- MODULE Spec2Model ----
(***************************************************************************)
(* Model of the feed controller of the Bluesky client: the useFeed hook    *)
(* (src/src/hooks/useFeed.js) with its per-session cache, its abort        *)
(* controller, its retry timers and the pagination merge.                  *)
(*                                                                         *)
(* One hook instance is one feed session.  The hook is enabled and has an  *)
(* agent (the early returns of fetchFeed, lines 78-92, are not taken).     *)
(* The agent honours the abort signal it is given: an aborted call can     *)
(* only end with an AbortError.  Each handler runs to its first await (or  *)
(* to its end) as one step; the code after an await is the step in which   *)
(* the response arrives.  The posts are normalized posts (normalizeData is   *)
(* true, the default); a response without a feed (line 205) is one of the  *)
(* failures.                                                               *)
(*                                                                         *)
(* The retry executor withRetry (src/unnamed/part_006, retryUtils) with    *)
(* the error classes of src/src/utils/errors.js is modelled next to it,    *)
(* under its own specification RetrySpec: useFeed does not call it.        *)
(*                                                                         *)
(* The post normalizer normalizePost (src/unnamed/part_005,                *)
(* blueskyNormalizer) is a pure function of one raw item; it is applied    *)
(* under the specification NormSpec.                                       *)
(*                                                                         *)
(* The rich-text segmenter useRichTextSegments and its two index           *)
(* converters (src/unnamed/part_004) are pure functions of a text and its  *)
(* facets; they are applied under the specifications SegSpec and ConvSpec. *)
(*                                                                         *)
(* The throttle throttleApiCalls (src/src/utils/apiUtils.js), as App.jsx   *)
(* calls it, is modelled under the specification ThrottleSpec.             *)
(***************************************************************************)
EXTENDS Integers, Sequences, FiniteSets, TLC

\* ------------------------------------------------------------------ bounds
MaxPage == 2       \* posts per page
MaxTime == 1       \* clock ticks
MaxCalls == 2      \* operations the caller starts after the mount (deps change,
                   \* loadMore, refresh, resetData)

\* cacheTime and retryCount are options of the hook; their defaults are
\* 60000 ms and 3.  The clock of the model ticks in units of cacheTime.
CacheTime == 1
RetryCount == 1

\* the uris of the posts the server returns, and the (feedType, params)
\* combinations the hook is rendered with
Uris == {1, 2}
Keys == {1, 2}
\* Every call in flight and every pending retry descends from the load of the
\* mount or from one operation of the caller, so there are never more of them
\* than MaxCalls + 1.
Slots == 1..(MaxCalls + 1)
TimerSlots == 1..(MaxCalls + 1)
NullCursor == 0
Cursors == {0, 1}
NoError == "null"
Errors == {"ServerError", "AuthError", "OfflineError"}
Undefined == "undefined"

\* A normalized post (the object normalizePost returns): it has a uri and
\* no field named id or post.
Post(u) == [uri |-> u]

RECURSIVE SeqsOver(_, _)
SeqsOver(S, n) ==
  IF n = 0 THEN {<<>>}
  ELSE LET shorter == SeqsOver(S, n - 1)
       IN shorter \cup {Append(q, x) : q \in {p \in shorter : Len(p) = n - 1}, x \in S}

Range(q) == {q[i] : i \in 1..Len(q)}

\* The pages the server can return: posts with pairwise distinct uris.
Pages == {q \in SeqsOver({Post(u) : u \in Uris}, MaxPage) : Cardinality(Range(q)) = Len(q)}

VARIABLES
  posts,          \* useState posts
  cursor,         \* useState cursor
  loading,        \* useState loading
  error,          \* useState error
  hasMore,        \* useState hasMore
  retryCountRef,  \* retryCountRef.current
  ctrl,           \* abortControllerRef.current: the slot of its request, 0 for null
  cache,          \* staticCache.current: cache key -> entry
  key,            \* the (feedType, params) of the current render
  now,            \* Date.now()
  reqs,           \* network calls in flight: slot -> call
  timers,         \* pending setTimeout retries: slot -> closure
  lastOp,         \* the handler that ran last (history)
  calls,          \* operations the caller has started (history, capped)
  fetched,        \* a fetch succeeded or the cache was hit since the last reset
                  \* of the state (history)
  wasReset,       \* resetData() was called and the caller has started no load,
                  \* refresh or loadMore since (history)
  \* withRetry (part_006)
  options,        \* the options of the call of withRetry
  attempt,        \* the loop variable
  lastError,      \* let lastError
  delay,          \* the time of the last sleep, 0 before the first
  outcome,        \* where the call of withRetry is: calling fn, sleeping, resolved, rejected
  resolved,       \* the value withRetry resolved with (the number of the call of fn)
  thrown,         \* the error withRetry rejected with
  fnCalls,        \* calls of fn so far (history)
  serverOnly,     \* every failure so far was a ServerError (history)
  \* normalizePost (part_005)
  postInput,      \* the argument of normalizePost
  normPost,       \* what normalizePost returned
  \* useRichTextSegments and the converters (part_004)
  segText,        \* the text
  segFacets,      \* the facets
  segResult,      \* what useRichTextSegments returned
  givenByte,      \* the argument of byteToUtf16
  gotUtf16,     \* what byteToUtf16 returned, -1 when it threw
  gotByte,        \* what utf16ToByte returned for gotUtf16
  \* throttleApiCalls (apiUtils.js) and its callers (App.jsx)
  thrNow,         \* Date.now()
  lastApiCall,    \* useState lastApiCall of App
  thrPc,          \* caller -> idle, sleeping (in await sleep) or started
  wakeAt,         \* caller -> the time its sleep ends
  startedAt,      \* caller -> the time its API call began (history)
  \* useProfile (useProfile.js)
  profile,        \* useState profile: the follow state it shows, or null
  profLoading,    \* useState loading
  profileCache,   \* useState profileCache: the entry of the handle
  profFetching,   \* calls of fetchProfile that await withRetry
  serverFollowing,\* the follow state at the server
  profNow,        \* Date.now()
  toggle,         \* the call of toggleFollow: idle, or awaiting withRetry
  netFetches,     \* fetches of the profile from the network so far (history)
  \* useAuth (useAuth.js)
  user,           \* useState user
  stored,         \* localStorage has the item bluesky_auth
  restores,       \* calls of restoreSession that await: slot -> where
  login,          \* the call of login: idle, or awaiting withRetry
  loggedOut,      \* logout() has returned and no login() called after it has
                  \* succeeded since (history)
  \* RichText (part_000)
  richText,       \* props.text
  richFacets,     \* props.facets
  linkifyUrls,    \* mergedOptions.linkifyUrls
  richContent     \* processedContent

feedVars == <<posts, cursor, loading, error, hasMore, retryCountRef, ctrl, cache,
              key, now, reqs, timers, lastOp, calls, fetched,
              wasReset>>
retryVars == <<options, attempt, lastError, delay, outcome, resolved, thrown,
               fnCalls, serverOnly>>
normVars == <<postInput, normPost>>
segVars == <<segText, segFacets, segResult, givenByte, gotUtf16, gotByte>>
throttleVars == <<thrNow, lastApiCall, thrPc, wakeAt, startedAt>>
profVars == <<profile, profLoading, profileCache, profFetching, serverFollowing,
              profNow, toggle, netFetches>>
authVars == <<user, stored, restores, login, loggedOut>>
richVars == <<richText, richFacets, linkifyUrls, richContent>>
hookVars == <<profVars, authVars, richVars>>
vars == <<feedVars, retryVars, normVars, segVars, throttleVars, hookVars>>

\* the state that is not of useFeed, not of withRetry, not of normalizePost,
\* not of the segmenter, not of the throttle, not of useProfile
outsideFeed == <<retryVars, normVars, segVars, throttleVars, hookVars>>
outsideRetry == <<feedVars, normVars, segVars, throttleVars, hookVars>>
outsideNorm == <<feedVars, retryVars, segVars, throttleVars, hookVars>>
outsideSeg == <<feedVars, retryVars, normVars, throttleVars, hookVars>>
outsideThrottle == <<feedVars, retryVars, normVars, segVars, hookVars>>
appVars == <<feedVars, retryVars, normVars, segVars, throttleVars>>
outsideProfile == <<appVars, authVars, richVars>>
outsideAuth == <<appVars, profVars, richVars>>
outsideRich == <<appVars, profVars, authVars>>

\* ----------------------------------------------------------------- helpers

\* p.id || p.post?.id (lines 225, 227)
PostId(p) ==
  IF "id" \in DOMAIN p THEN p.id
  ELSE IF "post" \in DOMAIN p /\ "id" \in DOMAIN p.post THEN p.post.id
  ELSE Undefined

\* new Set(posts.map((p) => p.id || p.post?.id)) (line 225)
ExistingIds(held) == {PostId(held[i]) : i \in 1..Len(held)}

\* processedFeed.filter((p) => !existingIds.has(p.id || p.post?.id)) (226-228)
UniqueNewPosts(ids, page) == SelectSeq(page, LAMBDA p : PostId(p) \notin ids)

\* CacheFresh with the comparison reversed (a faulty variant, for C6)
CacheFreshReversed(entry) == now - entry.timestamp > CacheTime

\* CacheFresh with <= for <: an entry of age cacheTime still counts as fresh
\* (a faulty variant, for C9)
CacheFreshInclusive(entry) == now - entry.timestamp <= CacheTime

\* Date.now() - cacheEntry.timestamp < cacheTime (line 109)
CacheFresh(entry) == now - entry.timestamp < CacheTime

\* ChecksCache without the test of forceRefresh (a faulty variant, for C7)
ChecksCacheOnRefresh(lm, fr) == ~lm

\* the cache is consulted: not loadMore, not forceRefresh (line 105)
ChecksCache(lm, fr) == ~lm /\ ~fr

\* cache hit of fetchFeed (lines 105-109)
CacheHit(lm, fr, k) == ChecksCache(lm, fr) /\ k \in DOMAIN cache /\ CacheFresh(cache[k])

\* abortControllerRef.current.abort() (lines 95-97, 337-339)
Abort(rs, c) ==
  IF c \in DOMAIN rs THEN [rs EXCEPT ![c].aborted = TRUE] ELSE rs

\* The calls in flight (or the pending retries), each marked as superseded: a
\* newer load or refresh was started after it (history, read by no handler).
Supersede(rs) == [s \in DOMAIN rs |-> [rs[s] EXCEPT !.superseded = TRUE]]

FreeSlot(rs) == CHOOSE s \in Slots \ DOMAIN rs : \A t \in Slots \ DOMAIN rs : s <= t
FreeTimer(ts) == CHOOSE s \in TimerSlots \ DOMAIN ts : \A t \in TimerSlots \ DOMAIN ts : s <= t

Remove(f, x) == [s \in DOMAIN f \ {x} |-> f[s]]

\* cursor sent with the request (lines 139-141)
SentCursor(lm, ccur) == IF lm /\ ccur # NullCursor THEN ccur ELSE NullCursor

\* setPosts of the synchronous part of fetchFeed on a cache miss (127-133)
PostsWhileLoading(lm, fr, held) == IF ~lm /\ ~fr THEN <<>> ELSE held

\* fetchFeed(loadMore, forceRefresh) up to its first await (lines 76-148).
\* k, ids and ccur are what the closure captured: the cache key, the ids of
\* the posts and the cursor of the render that created it.  Only a loadMore
\* reads ids and ccur (lines 139, 225): the other calls carry {} and null.
\* rs0, posts0, cursor0, hasMore0, error0 are the state left by the statements
\* the caller ran before the call.  held is history, read by no handler: the list that
\* was held when refresh() was called, and the empty list for other calls; so
\* is tries: the network calls issued so far for the operation of the caller
\* this call belongs to, this one included.
FetchFeed(lm, fr, k, ids, ccur, held, tries, rs0, posts0, cursor0, hasMore0, error0) ==
  LET rsA == Abort(rs0, ctrl)
  IN IF CacheHit(lm, fr, k)
     THEN /\ posts' = cache[k].data
          /\ cursor' = cache[k].cursor
          /\ hasMore' = (cache[k].cursor # NullCursor)
          /\ loading' = FALSE
          /\ error' = NoError
          /\ ctrl' = 0                       \* finally, line 303
          /\ reqs' = rsA
     ELSE /\ loading' = TRUE
          /\ posts' = PostsWhileLoading(lm, fr, posts0)
          /\ cursor' = cursor0
          /\ hasMore' = hasMore0
          /\ error' = error0
          /\ ctrl' = FreeSlot(rsA)
          /\ reqs' = rsA @@ (FreeSlot(rsA) :>
                       [lm |-> lm, fr |-> fr, key |-> k, ids |-> ids, ccur |-> ccur,
                        sent |-> SentCursor(lm, ccur), held |-> held, tries |-> tries,
                        aborted |-> FALSE, superseded |-> FALSE])


\* ----------------------------------------------------------------- actions

\* The effect of lines 323-341 runs again because feedType, params or the
\* agent changed: the cleanup of the previous run, then the reset and the load.
EffectRun(k) ==
  /\ calls < MaxCalls
  /\ calls' = calls + 1
  /\ key' = k
  /\ retryCountRef' = 0
  /\ FetchFeed(FALSE, FALSE, k, {}, NullCursor, <<>>, 1,
               Supersede(Abort(reqs, ctrl)), <<>>, NullCursor, TRUE, NoError)
  /\ lastOp' = IF CacheHit(FALSE, FALSE, k) THEN "loadHit" ELSE "load"
  /\ fetched' = CacheHit(FALSE, FALSE, k)
  /\ wasReset' = FALSE
  /\ timers' = Supersede(timers)
  /\ UNCHANGED <<cache, now>>
  /\ UNCHANGED outsideFeed

\* loadMore (lines 344-348)
LoadMore ==
  /\ calls < MaxCalls
  /\ calls' = calls + 1
  /\ ~loading /\ hasMore /\ error = NoError
  /\ FetchFeed(TRUE, FALSE, key, ExistingIds(posts), cursor, <<>>, 1,
               reqs, posts, cursor, hasMore, error)
  /\ lastOp' = "loadMore"
  /\ wasReset' = FALSE
  /\ UNCHANGED <<retryCountRef, cache, key, now, timers, fetched>>
  /\ UNCHANGED outsideFeed

\* refresh (lines 351-356)
Refresh ==
  /\ calls < MaxCalls
  /\ calls' = calls + 1
  /\ retryCountRef' = 0
  /\ FetchFeed(FALSE, TRUE, key, {}, NullCursor, posts, 1,
               Supersede(reqs), posts, cursor, hasMore, NoError)
  /\ lastOp' = "refresh"
  /\ wasReset' = FALSE
  /\ timers' = Supersede(timers)
  /\ UNCHANGED <<cache, key, now, fetched>>
  /\ UNCHANGED outsideFeed

\* ResetPosts that keeps the held list (a faulty variant, for C10)
ResetPostsKept == posts

\* Posts held after resetData (line 360)
ResetPosts == <<>>

\* resetData (lines 359-365)
ResetData ==
  /\ calls < MaxCalls
  /\ calls' = calls + 1
  /\ posts' = ResetPosts
  /\ cursor' = NullCursor
  /\ error' = NoError
  /\ hasMore' = TRUE
  /\ retryCountRef' = 0
  /\ lastOp' = "reset"
  /\ fetched' = FALSE
  /\ wasReset' = TRUE
  /\ UNCHANGED <<loading, ctrl, cache, key, now, reqs, timers>>
  /\ UNCHANGED outsideFeed

\* setPosts after a successful fetch (lines 223-234)
MergedPosts(r, held, page) ==
  IF r.lm THEN held \o UniqueNewPosts(r.ids, page) ELSE page

\* StoreCache without the test of loadMore: the page of a loadMore is stored
\* too (a faulty variant, for C8)
StoreCacheAlways(c, r, page, cur) ==
  [k \in DOMAIN c \cup {r.key} |->
     IF k = r.key THEN [timestamp |-> now, data |-> page, cursor |-> cur] ELSE c[k]]

\* the cache after a successful fetch (lines 241-254)
StoreCache(c, r, page, cur) ==
  IF ~r.lm
  THEN [k \in DOMAIN c \cup {r.key} |->
          IF k = r.key THEN [timestamp |-> now, data |-> page, cursor |-> cur] ELSE c[k]]
  ELSE c

\* The call of slot s resolves with a page and a cursor (lines 204-258, 301-304)
RespondSuccess(s, page, cur) ==
  /\ UNCHANGED calls
  /\ s \in DOMAIN reqs
  /\ ~reqs[s].aborted
  /\ posts' = MergedPosts(reqs[s], posts, page)
  /\ cursor' = cur
  /\ hasMore' = (cur # NullCursor)
  /\ cache' = StoreCache(cache, reqs[s], page, cur)
  /\ retryCountRef' = 0
  /\ loading' = FALSE
  /\ ctrl' = 0
  /\ reqs' = Remove(reqs, s)
  /\ lastOp' = "success"
  /\ fetched' = TRUE
  /\ UNCHANGED wasReset
  /\ UNCHANGED <<error, key, now, timers>>
  /\ UNCHANGED outsideFeed

\* RespondAbort without the test of line 261: the AbortError is surfaced like
\* the error of a call that failed for good (a faulty variant, for C12)
RespondAbortSurfaced(s) ==
  /\ UNCHANGED calls
  /\ s \in DOMAIN reqs
  /\ reqs[s].aborted
  /\ error' = "AbortError"
  /\ loading' = FALSE
  /\ ctrl' = 0
  /\ reqs' = Remove(reqs, s)
  /\ lastOp' = "aborted"
  /\ UNCHANGED <<posts, cursor, hasMore, retryCountRef, cache, key, now, timers, fetched, wasReset>>
  /\ UNCHANGED outsideFeed

\* The aborted call of slot s rejects with an AbortError (lines 261-264, 301-304)
RespondAbort(s) ==
  /\ UNCHANGED calls
  /\ s \in DOMAIN reqs
  /\ reqs[s].aborted
  /\ loading' = FALSE
  /\ ctrl' = 0
  /\ reqs' = Remove(reqs, s)
  /\ lastOp' = "aborted"
  /\ UNCHANGED <<posts, cursor, error, hasMore, retryCountRef, cache, key, now, timers, fetched, wasReset>>
  /\ UNCHANGED outsideFeed

\* a retry is scheduled (line 270)
WillRetry(n) == n < RetryCount

\* The call of slot s rejects with an error and a retry is scheduled
\* (lines 266-287, 301-304).  The closure of the timer is the fetchFeed of the
\* failed call; err is history, read by no handler: the error of that call.
\* No handler cancels a timer: clearTimeout is not called in useFeed.js.
RespondRetry(s, e) ==
  /\ UNCHANGED calls
  /\ s \in DOMAIN reqs
  /\ ~reqs[s].aborted
  /\ WillRetry(retryCountRef)
  /\ retryCountRef' = retryCountRef + 1
  /\ timers' = timers @@ (FreeTimer(timers) :>
                 [lm |-> reqs[s].lm, fr |-> reqs[s].fr, key |-> reqs[s].key,
                  ids |-> reqs[s].ids, ccur |-> reqs[s].ccur, held |-> reqs[s].held,
                  tries |-> reqs[s].tries, superseded |-> reqs[s].superseded, err |-> e])
  /\ loading' = FALSE
  /\ ctrl' = 0
  /\ reqs' = Remove(reqs, s)
  /\ lastOp' = "retryScheduled"
  /\ UNCHANGED <<posts, cursor, error, hasMore, cache, key, now, fetched, wasReset>>
  /\ UNCHANGED outsideFeed

\* the cached data is used as fallback after a failure (line 296)
UsesFallback(r) == ~r.lm /\ r.key \in DOMAIN cache /\ Len(cache[r.key].data) > 0

\* The call of slot s rejects with an error and no retry is left
\* (lines 266-270, 289-304)
RespondFail(s, e) ==
  /\ UNCHANGED calls
  /\ s \in DOMAIN reqs
  /\ ~reqs[s].aborted
  /\ ~WillRetry(retryCountRef)
  /\ error' = e
  /\ IF UsesFallback(reqs[s])
     THEN posts' = cache[reqs[s].key].data /\ cursor' = cache[reqs[s].key].cursor
     ELSE UNCHANGED <<posts, cursor>>
  /\ loading' = FALSE
  /\ ctrl' = 0
  /\ reqs' = Remove(reqs, s)
  /\ lastOp' = "failed"
  /\ UNCHANGED <<hasMore, retryCountRef, cache, key, now, timers, fetched, wasReset>>
  /\ UNCHANGED outsideFeed

\* The setTimeout callback of a scheduled retry runs (lines 281-284): it calls
\* the fetchFeed of the render that scheduled it.
TimerFire(t) ==
  /\ UNCHANGED calls
  /\ t \in DOMAIN timers
  /\ timers' = Remove(timers, t)
  /\ FetchFeed(timers[t].lm, timers[t].fr, timers[t].key, timers[t].ids, timers[t].ccur,
               timers[t].held, timers[t].tries + 1, reqs, posts, cursor, hasMore, error)
  /\ lastOp' = IF CacheHit(timers[t].lm, timers[t].fr, timers[t].key)
               THEN "retryHit" ELSE "retry"
  /\ fetched' = (fetched \/ CacheHit(timers[t].lm, timers[t].fr, timers[t].key))
  /\ UNCHANGED wasReset
  /\ UNCHANGED <<retryCountRef, cache, key, now>>
  /\ UNCHANGED outsideFeed

\* Time passes
Tick ==
  /\ now < MaxTime
  /\ now' = now + 1
  /\ UNCHANGED <<posts, cursor, loading, error, hasMore, retryCountRef, ctrl, cache,
                 key, reqs, timers, lastOp, calls, fetched, wasReset>>
  /\ UNCHANGED outsideFeed

\* ------------------------------------------ the Feed component (Feed.jsx)

\* The list the component holds when both effects of a change of feedType
\* have run: the effect of useFeed (useFeed.js 323-333, called at Feed.jsx
\* line 70) sets the list of the cache entry or the empty list, then the
\* effect of Feed (lines 81-87) calls resetData()
PostsAfterTypeChange(k) == ResetPosts

\* feedType changes to that of k.  The effects of the commit run in the
\* order of their hooks: the cleanup and the effect of useFeed (the reset
\* and fetchFeed(false, false) up to its first await), then the effect of
\* Feed, which calls resetData().
FeedTypeChange(k) ==
  /\ calls < MaxCalls
  /\ calls' = calls + 1
  /\ k # key
  /\ key' = k
  /\ retryCountRef' = 0
  /\ timers' = Supersede(timers)
  /\ LET rsA == Abort(Supersede(Abort(reqs, ctrl)), ctrl)
     IN IF CacheHit(FALSE, FALSE, k)
        THEN /\ loading' = FALSE
             /\ ctrl' = 0
             /\ reqs' = rsA
        ELSE /\ loading' = TRUE
             /\ ctrl' = FreeSlot(rsA)
             /\ reqs' = rsA @@ (FreeSlot(rsA) :>
                          [lm |-> FALSE, fr |-> FALSE, key |-> k, ids |-> {},
                           ccur |-> NullCursor, sent |-> NullCursor, held |-> <<>>,
                           tries |-> 1, aborted |-> FALSE, superseded |-> FALSE])
  /\ posts' = PostsAfterTypeChange(k)
  /\ cursor' = NullCursor
  /\ error' = NoError
  /\ hasMore' = TRUE
  /\ lastOp' = IF CacheHit(FALSE, FALSE, k) THEN "typeHit" ELSE "type"
  /\ fetched' = FALSE
  /\ wasReset' = TRUE
  /\ UNCHANGED <<cache, now>>
  /\ UNCHANGED outsideFeed

\* loadMoreItems of the list (Feed.jsx 114-122): fetchMore is loadMore
LoadMoreItems ==
  /\ Len(posts) > 0
  /\ LoadMore

\* ------------------------------------------------- withRetry (part_006)

MaxMaxRetries == 3     \* the largest options.maxRetries

\* a retry-after hint is used when it is below 5 minutes (line 89)
RateLimitCeiling == 300000

\* What a failing call of fn is given by the agent: the status of the
\* response (0: none), the kind of its message, navigator.onLine at that
\* time, the retry-after hint in seconds the operation passes on (0: none;
\* only a 429 response has one), and whether the operation throws the error as
\* it is or converted by createErrorFromResponse (as the hooks do).
Statuses == {0, 400, 401, 403, 429, 500}
Messages == {"plain", "offline", "network", "timeout", "unauthorized"}
Hints == {0, 2, 400}
Failures ==
  {f \in [status : Statuses, message : Messages, online : BOOLEAN,
          retryAfter : Hints, converted : BOOLEAN] :
     f.retryAfter # 0 => (f.status = 429 /\ f.converted)}

\* the options withRetry is called with; shouldRetry is the default policy
\* or a policy of the caller, which may answer anything
BaseDelays == {1000}
MaxDelays == {2000, 30000}
Policies == {"default", "custom"}
Options ==
  [maxRetries : 0..MaxMaxRetries, baseDelay : BaseDelays, maxDelay : MaxDelays,
   jitter : BOOLEAN, shouldRetry : Policies]

\* 0.7 + Math.random() * 0.6 (line 38), in percent
JitterPercents == {70, 100, 129}

\* the classes of errors.js: AppError and its subclasses, NetworkError and
\* its subclasses
AppErrors ==
  {"AppError", "NetworkError", "OfflineError", "TimeoutError", "RateLimitError",
   "ServerError", "ApiError", "AuthError", "ValidationError"}
NetworkErrors ==
  {"NetworkError", "OfflineError", "TimeoutError", "RateLimitError", "ServerError"}

\* An error object.  status is its status property (0 when it has none: the
\* classes of errors.js set statusCode, not status); retryable is read for
\* AppErrors only; retryAfter is 0 when undefined.
ErrorObject(name, message, status, statusCode, retryable, retryAfter) ==
  [name |-> name, message |-> message, status |-> status, statusCode |-> statusCode,
   retryable |-> retryable, retryAfter |-> retryAfter]

\* lastError before the first failure (undefined)
NoLastError == ErrorObject("undefined", "plain", 0, 0, TRUE, 0)

\* the error of the agent, as it is
RawError(f) == ErrorObject("Error", f.message, f.status, 0, TRUE, 0)

\* createErrorFromResponse(error, options) (errors.js 169-233)
createErrorFromResponse(f) ==
  IF ~f.online \/ f.message \in {"offline", "network"}
  THEN ErrorObject("OfflineError", f.message, 0, 0, FALSE, 0)
  ELSE IF f.message = "timeout"
  THEN ErrorObject("TimeoutError", f.message, 0, 0, TRUE, 0)
  ELSE IF f.status = 429
  THEN ErrorObject("RateLimitError", f.message, 0, f.status, TRUE, f.retryAfter)
  ELSE IF f.status >= 500
  THEN ErrorObject("ServerError", f.message, 0, f.status, TRUE, 0)
  ELSE IF f.status \in {401, 403}
  THEN ErrorObject("AuthError", f.message, 0, f.status, FALSE, 0)
  ELSE IF f.status \in {400, 422}
  THEN ErrorObject("ValidationError", f.message, 0, f.status, FALSE, 0)
  ELSE ErrorObject("ApiError", f.message, 0, f.status, TRUE, 0)

\* the error fn rejects with
ThrownBy(f) == IF f.converted THEN createErrorFromResponse(f) ELSE RawError(f)

\* defaultShouldRetry without the test of isRetryable() and without the auth
\* test (a faulty variant, for C16)
defaultShouldRetryLenient(e, n, online) ==
  IF e.name \in NetworkErrors
  THEN ~(e.message = "offline" \/ ~online) /\ ~(e.name = "TimeoutError" /\ n >= 2)
  ELSE IF e.status >= 500 /\ e.status < 600 THEN TRUE
  ELSE n = 0

\* defaultShouldRetry(error, attempt) (part_006 137-182); online is
\* navigator.onLine
defaultShouldRetry(e, n, online) ==
  IF e.name \in AppErrors /\ ~e.retryable THEN FALSE
  ELSE IF e.name \in NetworkErrors
  THEN IF e.message = "offline" \/ ~online THEN FALSE
       ELSE IF e.name = "TimeoutError" /\ n >= 2 THEN FALSE
       ELSE TRUE
  ELSE IF e.status \in {401, 403} \/ e.message = "unauthorized" THEN FALSE
  ELSE IF e.status >= 500 /\ e.status < 600 THEN TRUE
  ELSE n = 0

RECURSIVE Pow2(_)
Pow2(n) == IF n = 0 THEN 1 ELSE 2 * Pow2(n - 1)

Min(a, b) == IF a < b THEN a ELSE b

\* cappedDelay without the cap (a faulty variant, for C14)
exponentialDelay(n) == options.baseDelay * Pow2(n)

\* Math.min(baseDelay * 2^attempt, maxDelay) (lines 30-33)
cappedDelay(n) == Min(options.baseDelay * Pow2(n), options.maxDelay)

\* calculateBackoff(attempt, options) (lines 26-43); r is the jitter factor
\* drawn by Math.random(), in percent
calculateBackoff(n, r) ==
  IF options.jitter THEN (cappedDelay(n) * r) \div 100 ELSE cappedDelay(n)

\* the retry-after hint of the error is used for the sleep (lines 87-89)
RetryAfterUsed(e) ==
  /\ e.name = "RateLimitError"
  /\ e.retryAfter # 0
  /\ e.retryAfter * 1000 > 0
  /\ e.retryAfter * 1000 < RateLimitCeiling

\* the time slept before the next attempt (lines 80-110)
SleepFor(e, n, r) ==
  IF RetryAfterUsed(e) THEN e.retryAfter * 1000 ELSE calculateBackoff(n, r)

\* MayRetry with <= for <: one retry too many (a faulty variant, for C15)
MayRetryInclusive(n) == n <= options.maxRetries

\* attempt < maxRetries (line 78)
MayRetry(n) == n < options.maxRetries

\* shouldRetry(error, attempt) (line 78); c is the answer of a policy of the
\* caller
ShouldRetry(e, n, online, c) ==
  IF options.shouldRetry = "default" THEN defaultShouldRetry(e, n, online) ELSE c

\* the condition of line 78
Retries(f, c) == MayRetry(attempt) /\ ShouldRetry(ThrownBy(f), attempt, f.online, c)

\* fn resolves: withRetry returns its value (line 73).  The value of the
\* n-th call is n.
FnResolves ==
  /\ outcome = "calling"
  /\ outcome' = "resolved"
  /\ resolved' = fnCalls
  /\ UNCHANGED <<options, attempt, lastError, delay, thrown, fnCalls, serverOnly>>
  /\ UNCHANGED outsideRetry

\* fn rejects and the attempt is retried: withRetry sleeps (lines 74-110)
FnRejectsRetry(f, r, c) ==
  /\ outcome = "calling"
  /\ Retries(f, c)
  /\ lastError' = ThrownBy(f)
  /\ delay' = SleepFor(ThrownBy(f), attempt, r)
  /\ outcome' = "sleeping"
  /\ serverOnly' = (serverOnly /\ ThrownBy(f).name = "ServerError")
  /\ UNCHANGED <<options, attempt, resolved, thrown, fnCalls>>
  /\ UNCHANGED outsideRetry

\* fn rejects and the error is thrown on (lines 74-78, 120-122)
FnRejectsThrow(f, c) ==
  /\ outcome = "calling"
  /\ ~Retries(f, c)
  /\ lastError' = ThrownBy(f)
  /\ thrown' = ThrownBy(f)
  /\ outcome' = "rejected"
  /\ serverOnly' = (serverOnly /\ ThrownBy(f).name = "ServerError")
  /\ UNCHANGED <<options, attempt, delay, resolved, fnCalls>>
  /\ UNCHANGED outsideRetry

\* the sleep ends: continue, attempt++, and the loop calls fn again while
\* attempt <= maxRetries (lines 70, 94-101, 110-117, 126-127)
SleepEnds ==
  /\ outcome = "sleeping"
  /\ attempt' = attempt + 1
  /\ IF attempt + 1 <= options.maxRetries
     THEN outcome' = "calling" /\ fnCalls' = fnCalls + 1 /\ UNCHANGED thrown
     ELSE outcome' = "rejected" /\ thrown' = lastError /\ UNCHANGED fnCalls
  /\ UNCHANGED <<options, lastError, delay, resolved, serverOnly>>
  /\ UNCHANGED outsideRetry

\* --------------------------------------- normalizePost (part_005)

\* JavaScript values: undefined, null, strings, numbers, booleans, objects
\* (field name -> value) and arrays (sequences of values)
Undef == [t |-> "undefined", v |-> 0]
Null == [t |-> "null", v |-> 0]
Str(s) == [t |-> "string", v |-> s]
Num(n) == [t |-> "number", v |-> n]
Bool(b) == [t |-> "boolean", v |-> b]
Obj(f) == [t |-> "object", v |-> f]
Arr(q) == [t |-> "array", v |-> q]
EmptyObject == Obj([k \in {} |-> Undef])

\* the outcome of an expression that throws a TypeError
Throws == [t |-> "throw", v |-> 0]

\* the value of normPost before normalizePost has returned
NotRun == [t |-> "pending", v |-> 0]

\* the truthiness a || b tests
Truthy(x) ==
  IF x.t \in {"undefined", "null"} THEN FALSE
  ELSE IF x.t = "string" THEN x.v # ""
  ELSE IF x.t = "number" THEN x.v # 0
  ELSE IF x.t = "boolean" THEN x.v
  ELSE TRUE

\* a || b
Or(a, b) == IF Truthy(a) THEN a ELSE b

\* x.k, for x that is neither undefined nor null
Get(x, k) == IF x.t = "object" /\ k \in DOMAIN x.v THEN x.v[k] ELSE Undef

\* isValidObject (lines 21-23)
isValidObject(obj) == obj # Undef /\ obj # Null

\* x?.k
OptGet(x, k) == IF isValidObject(x) THEN Get(x, k) ELSE Undef

\* x?.[0]; no embeds of the model is a string
OptFirst(x) == IF x.t = "array" /\ Len(x.v) > 0 THEN x.v[1] ELSE Undef

\* isValidArray (lines 31-33)
isValidArray(arr) == arr.t = "array" /\ Len(arr.v) > 0

\* isValidString (lines 41-43); no string of the model is blank
isValidString(str) == str.t = "string" /\ str.v # ""

\* DEFAULT_AUTHOR (lines 50-60)
DEFAULT_AUTHOR ==
  Obj([did |-> Str(""), handle |-> Str(""), displayName |-> Str(""), avatar |-> Null,
       description |-> Str(""), followersCount |-> Num(0), followsCount |-> Num(0),
       postsCount |-> Num(0), indexedAt |-> Str("")])

\* normalizeAuthor (lines 68-89)
normalizeAuthor(input) ==
  IF ~isValidObject(input) THEN DEFAULT_AUTHOR
  ELSE Obj([did |-> Or(Get(input, "did"), Str("")),
            handle |-> Or(Get(input, "handle"), Str("")),
            displayName |-> Or(Get(input, "displayName"), Or(Get(input, "handle"), Str(""))),
            avatar |-> Or(Get(input, "avatar"), Null),
            description |-> Or(Get(input, "description"), Str("")),
            followersCount |-> Or(Get(input, "followersCount"), Num(0)),
            followsCount |-> Or(Get(input, "followsCount"), Num(0)),
            postsCount |-> Or(Get(input, "postsCount"), Num(0)),
            indexedAt |-> Or(Get(input, "indexedAt"), Str(""))])

\* getAuthorFromPost (lines 97-112)
getAuthorFromPost(post) ==
  IF ~isValidObject(post) THEN DEFAULT_AUTHOR
  ELSE normalizeAuthor(Or(Get(post, "author"),
                       Or(OptGet(Get(post, "post"), "author"),
                       Or(OptGet(Get(post, "record"), "author"), Null))))

\* DEFAULT_POST (lines 119-138)
DEFAULT_POST ==
  Obj([uri |-> Str(""), cid |-> Str(""), author |-> DEFAULT_AUTHOR, text |-> Str(""),
       facets |-> Arr(<<>>), embed |-> Null, indexedAt |-> Str(""),
       likeCount |-> Num(0), repostCount |-> Num(0), replyCount |-> Num(0),
       isRepost |-> Bool(FALSE), repostedBy |-> Null, isQuote |-> Bool(FALSE),
       quotedPost |-> Null, images |-> Arr(<<>>), externalLink |-> Null,
       youtubeId |-> Null, labels |-> Arr(<<>>)])

\* the $type values the normalizer tests
ReasonRepost == "app.bsky.feed.defs#reasonRepost"
EmbedImages == "app.bsky.embed.images"
EmbedRecord == "app.bsky.embed.record"
EmbedRecordWithMedia == "app.bsky.embed.recordWithMedia"
EmbedExternal == "app.bsky.embed.external"

\* isRepost taking any reason for a repost (a faulty variant, for C21)
isRepostAnyReason(post) ==
  /\ isValidObject(post)
  /\ Truthy(Get(post, "reason"))

\* isRepost (lines 146-153)
isRepost(post) ==
  /\ isValidObject(post)
  /\ Truthy(Get(post, "reason"))
  /\ Get(Get(post, "reason"), "$type") = Str(ReasonRepost)

\* getOriginalPost (lines 160-167)
getOriginalPost(post) ==
  IF ~isValidObject(post) THEN Null
  ELSE IF isRepost(post) THEN Or(Get(post, "post"), post)
  ELSE post

\* getPostUri (lines 175-179)
getPostUri(post) ==
  IF ~isValidObject(post) THEN Str("")
  ELSE Or(Get(post, "uri"),
       Or(OptGet(Get(post, "post"), "uri"),
       Or(OptGet(Get(post, "record"), "uri"), Str(""))))

\* getPostCid (lines 187-191)
getPostCid(post) ==
  IF ~isValidObject(post) THEN Str("")
  ELSE Or(Get(post, "cid"),
       Or(OptGet(Get(post, "post"), "cid"),
       Or(OptGet(Get(post, "record"), "cid"), Str(""))))

\* getPostText looking at record.text first (a faulty variant, for C23)
getPostTextRecordFirst(post) ==
  IF ~isValidObject(post) THEN Str("")
  ELSE Or(OptGet(Get(post, "record"), "text"),
       Or(Get(post, "text"),
       Or(OptGet(Get(post, "value"), "text"),
       Or(OptGet(OptGet(Get(post, "post"), "record"), "text"),
       Or(OptGet(Get(post, "post"), "text"), Str(""))))))

\* getPostText (lines 199-210)
getPostText(post) ==
  IF ~isValidObject(post) THEN Str("")
  ELSE Or(Get(post, "text"),
       Or(OptGet(Get(post, "record"), "text"),
       Or(OptGet(Get(post, "value"), "text"),
       Or(OptGet(OptGet(Get(post, "post"), "record"), "text"),
       Or(OptGet(Get(post, "post"), "text"), Str(""))))))

\* getPostFacets (lines 218-230)
getPostFacets(post) ==
  IF ~isValidObject(post) THEN Arr(<<>>)
  ELSE LET facets == Or(Get(post, "facets"),
                     Or(OptGet(Get(post, "record"), "facets"),
                     Or(OptGet(Get(post, "value"), "facets"),
                     Or(OptGet(OptGet(Get(post, "post"), "record"), "facets"),
                     Or(OptGet(Get(post, "post"), "facets"), Null)))))
       IN IF isValidArray(facets) THEN facets ELSE Arr(<<>>)

\* getPostIndexedAt (lines 238-248)
getPostIndexedAt(post) ==
  IF ~isValidObject(post) THEN Str("")
  ELSE Or(Get(post, "indexedAt"),
       Or(OptGet(Get(post, "record"), "createdAt"),
       Or(OptGet(Get(post, "value"), "createdAt"),
       Or(OptGet(Get(post, "post"), "indexedAt"), Str("")))))

\* getPostEmbed (lines 256-267)
getPostEmbed(post) ==
  IF ~isValidObject(post) THEN Null
  ELSE Or(Get(post, "embed"),
       Or(OptGet(Get(post, "record"), "embed"),
       Or(OptGet(Get(post, "value"), "embed"),
       Or(OptGet(Get(post, "post"), "embed"),
       Or(OptGet(OptGet(Get(post, "post"), "record"), "embed"), Null)))))

\* the object pushed for one image (lines 286-291)
ImageOf(image) ==
  Obj([fullsize |-> Get(image, "fullsize"),
       thumb |-> Or(Get(image, "thumb"), Get(image, "fullsize")),
       alt |-> Or(Get(image, "alt"), Str("")),
       aspectRatio |-> Or(Get(image, "aspectRatio"), Null)])

\* images.forEach((image) => { if (image.fullsize) images.push(...) })
\* (lines 284-293): reading image.fullsize throws when an element is
\* undefined or null
ImagesFrom(list) ==
  IF \E i \in 1..Len(list.v) : ~isValidObject(list.v[i]) THEN Throws
  ELSE LET kept == SelectSeq(list.v, LAMBDA image : Truthy(Get(image, "fullsize")))
       IN Arr([i \in 1..Len(kept) |-> ImageOf(kept[i])])

\* the images of an embed of type images, or none (lines 282-295, 303-318, 325-338)
ImagesOfImagesEmbed(e) ==
  IF isValidObject(e) /\ Get(e, "$type") = Str(EmbedImages) /\ isValidArray(Get(e, "images"))
  THEN ImagesFrom(Get(e, "images"))
  ELSE Arr(<<>>)

\* the body of the try block of normalizeImages (lines 281-353); the embed
\* has one $type, so at most one of the four blocks adds images
normalizeImagesBody(embed) ==
  LET type == Get(embed, "$type")
      record == Get(embed, "record")
      external == Get(embed, "external")
  IN IF type = Str(EmbedImages) THEN ImagesOfImagesEmbed(embed)
     ELSE IF type = Str(EmbedRecord)
     THEN ImagesOfImagesEmbed(Or(OptFirst(OptGet(record, "embeds")), OptGet(record, "embed")))
     ELSE IF type = Str(EmbedRecordWithMedia) THEN ImagesOfImagesEmbed(Get(embed, "media"))
     ELSE IF type = Str(EmbedExternal) /\ isValidObject(external)
               /\ Truthy(Get(external, "thumb"))
     THEN Arr(<<Obj([fullsize |-> Get(external, "thumb"), thumb |-> Get(external, "thumb"),
                     alt |-> Or(Get(external, "title"), Or(Get(external, "uri"), Str(""))),
                     isExternal |-> Bool(TRUE)])>>)
     ELSE Arr(<<>>)

\* normalizeImages (lines 275-358)
normalizeImages(embed) ==
  IF ~isValidObject(embed) THEN Arr(<<>>)
  ELSE IF normalizeImagesBody(embed) = Throws THEN Arr(<<>>)
  ELSE normalizeImagesBody(embed)

\* the urls of the model: a YouTube video, another page, and a string that
\* is no url
YoutubeUrl == "https://www.youtube.com/watch?v=dQw4w9WgXcQ"
PageUrl == "https://www.example.com/page"
NoUrl == "not a url"

\* extractYoutubeId (lines 366-389)
extractYoutubeId(url) ==
  IF isValidString(url) /\ url.v = YoutubeUrl THEN Str("dQw4w9WgXcQ") ELSE Null

\* extractDomain (lines 397-414): the hostname without a leading www.; null
\* when new URL(uri) throws
extractDomain(uri) ==
  IF ~isValidString(uri) THEN Null
  ELSE IF uri.v = YoutubeUrl THEN Str("youtube.com")
  ELSE IF uri.v = PageUrl THEN Str("example.com")
  ELSE Null

\* normalizeExternalLink (lines 422-453)
normalizeExternalLink(embed) ==
  IF ~isValidObject(embed) THEN Null
  ELSE IF Get(embed, "$type") = Str(EmbedExternal) /\ isValidObject(Get(embed, "external"))
  THEN LET external == Get(embed, "external")
           uri == Get(external, "uri")
       IN IF ~isValidString(uri) THEN Null
          ELSE Obj([uri |-> uri, url |-> uri,
                    title |-> Or(Get(external, "title"), Or(extractDomain(uri), uri)),
                    description |-> Or(Get(external, "description"), Str("")),
                    thumb |-> Get(external, "thumb"),
                    domain |-> extractDomain(uri),
                    youtubeId |-> extractYoutubeId(uri)])
  ELSE Null

\* isQuote (lines 462-474)
isQuote(post, embed) ==
  /\ isValidObject(post)
  /\ isValidObject(Or(embed, getPostEmbed(post)))
  /\ Get(Or(embed, getPostEmbed(post)), "$type") \in {Str(EmbedRecord), Str(EmbedRecordWithMedia)}

\* getQuotedPost (lines 483-498)
getQuotedPost(post, embed) ==
  IF ~isValidObject(post) THEN Null
  ELSE LET embedData == Or(embed, getPostEmbed(post))
       IN IF ~isValidObject(embedData) THEN Null
          ELSE IF Get(embedData, "$type") = Str(EmbedRecord) THEN Get(embedData, "record")
          ELSE IF Get(embedData, "$type") = Str(EmbedRecordWithMedia)
          THEN OptGet(Get(embedData, "record"), "record")
          ELSE Null

\* the summary of the quoted post (lines 552-568)
QuotedPostOf(rawQuotedPost) ==
  LET summary == [uri |-> getPostUri(rawQuotedPost), cid |-> getPostCid(rawQuotedPost),
                  text |-> getPostText(rawQuotedPost), facets |-> getPostFacets(rawQuotedPost),
                  author |-> getAuthorFromPost(rawQuotedPost),
                  indexedAt |-> getPostIndexedAt(rawQuotedPost),
                  embed |-> getPostEmbed(rawQuotedPost)]
  IN IF isValidObject(summary.embed)
     THEN Obj(summary @@ [images |-> normalizeImages(summary.embed),
                          externalLink |-> normalizeExternalLink(summary.embed)])
     ELSE Obj(summary)

\* post.labels?.map((label) => label.val) || [] (line 575): map is not a
\* function unless labels is an array, and label.val throws for an element
\* that is undefined or null
LabelsOf(post) ==
  LET labels == Get(post, "labels")
  IN IF ~isValidObject(labels) THEN Arr(<<>>)
     ELSE IF labels.t # "array" THEN Throws
     ELSE IF \E i \in 1..Len(labels.v) : ~isValidObject(labels.v[i]) THEN Throws
     ELSE Arr([i \in 1..Len(labels.v) |-> Get(labels.v[i], "val")])

\* the body of the try block of normalizePost (lines 512-596)
normalizePostBody(input) ==
  LET isReposted == isRepost(input)
      repostedBy == IF isReposted THEN normalizeAuthor(OptGet(Get(input, "reason"), "by"))
                    ELSE Null
      post == getOriginalPost(input)
      embed == getPostEmbed(post)
      isQuoted == isQuote(post, embed)
      externalLink == normalizeExternalLink(embed)
      rawQuotedPost == getQuotedPost(post, embed)
  IN IF ~isValidObject(post) THEN DEFAULT_POST
     ELSE IF LabelsOf(post) = Throws THEN Throws
     ELSE Obj([uri |-> getPostUri(post), cid |-> getPostCid(post),
               author |-> getAuthorFromPost(post), text |-> getPostText(post),
               facets |-> getPostFacets(post), embed |-> embed,
               indexedAt |-> getPostIndexedAt(post),
               likeCount |-> Or(Get(post, "likeCount"), Num(0)),
               repostCount |-> Or(Get(post, "repostCount"), Num(0)),
               replyCount |-> Or(Get(post, "replyCount"), Num(0)),
               isRepost |-> Bool(isReposted), repostedBy |-> repostedBy,
               isQuote |-> Bool(isQuoted),
               quotedPost |-> IF isQuoted /\ isValidObject(rawQuotedPost)
                              THEN QuotedPostOf(rawQuotedPost) ELSE Null,
               images |-> normalizeImages(embed), externalLink |-> externalLink,
               youtubeId |-> Or(OptGet(externalLink, "youtubeId"), Null),
               labels |-> LabelsOf(post)])

\* normalizePost without its catch block: what the body throws is thrown on
\* (a faulty variant, for C20)
normalizePostUncaught(input) ==
  IF ~isValidObject(input) THEN DEFAULT_POST ELSE normalizePostBody(input)

\* normalizePost (lines 506-601)
normalizePost(input) ==
  IF ~isValidObject(input) THEN DEFAULT_POST
  ELSE IF normalizePostBody(input) = Throws THEN DEFAULT_POST
  ELSE normalizePostBody(input)

\* an object of the given $type with the fields of f
Typed(type, f) == Obj(("$type" :> Str(type)) @@ f)

\* The raw items normalizePost is given.  A post view has, or lacks, each of
\* uri, record, author, embed, labels and likeCount, well-formed or not.
RawUris == {Undef, Str("at://post/1"), Num(7)}
RawRecords == {Undef, Str("bad"), Obj([text |-> Str("hello"), createdAt |-> Str("2024")])}
RawAuthors == {Undef, Null, Obj([did |-> Str("did:1"), handle |-> Str("ann.test")])}
RawEmbeds ==
  {Undef, Str("bad"),
   Typed(EmbedImages, [images |-> Arr(<<Obj([fullsize |-> Str("img"), alt |-> Str("a cat")])>>)]),
   Typed(EmbedImages, [images |-> Arr(<<Null>>)]),
   Typed(EmbedExternal, [external |-> Obj([uri |-> Str(YoutubeUrl)])]),
   Typed(EmbedExternal, [external |-> Obj([uri |-> Str(PageUrl), thumb |-> Str("img")])]),
   Typed(EmbedExternal, [external |-> Obj([uri |-> Str(NoUrl)])]),
   Typed(EmbedExternal, [external |-> Obj([title |-> Str("no uri")])]),
   Typed(EmbedRecord,
         [record |-> Obj([uri |-> Str("at://post/2"), value |-> Obj([text |-> Str("quoted")])])]),
   Typed(EmbedRecordWithMedia, [k \in {} |-> Undef])}
RawLabels ==
  {Undef, Str("bad"), Arr(<<Null>>), Arr(<<EmptyObject>>), Arr(<<Obj([val |-> Str("nsfw")])>>)}
RawCounts == {Undef, Num(3)}

\* an object with the fields of f that are not undefined
Defined(f) == Obj([k \in {n \in DOMAIN f : f[n] # Undef} |-> f[k]])

PostViews ==
  {Defined([uri |-> u, record |-> r, author |-> a, embed |-> e, labels |-> l, likeCount |-> c]) :
     u \in RawUris, r \in RawRecords, a \in RawAuthors, e \in RawEmbeds, l \in RawLabels,
     c \in RawCounts}

\* the reason of a feed item: none, a repost, a repost without by, malformed
RawReasons ==
  {Undef, Str("bad"), Typed(ReasonRepost, [k \in {} |-> Undef]),
   Typed(ReasonRepost, [by |-> Obj([did |-> Str("did:2"), handle |-> Str("bob.test")])])}

\* Post views whose fields live at several candidate paths at once, some
\* of them with a value that is defined and falsy (an empty string, an empty
\* array) or malformed.
OneFacet == Arr(<<Obj([index |-> Obj([byteStart |-> Num(0), byteEnd |-> Num(3)])])>>)
PathTexts == {Undef, Null, Str(""), Str("top")}
PathFacets == {Undef, Str("bad"), Arr(<<>>), OneFacet}
PathRecords ==
  {Undef,
   Obj([text |-> Str("rec"), createdAt |-> Str("2024"), facets |-> OneFacet]),
   Obj([text |-> Str(""), uri |-> Str("at://rec"), cid |-> Str("cid-rec")]),
   Obj([embed |-> Typed(EmbedImages, [images |-> Arr(<<>>)]), facets |-> Str("bad")])}
PathValues == {Undef, Obj([text |-> Str("val"), createdAt |-> Str("2023")])}
PathPosts ==
  {Undef,
   Obj([text |-> Str("ptext"), uri |-> Str("at://inner"), indexedAt |-> Str("2022")]),
   Obj([record |-> Obj([text |-> Str("prec"), embed |-> Str("bad")]), cid |-> Str("cid-inner")])}
PathDates == {Undef, Str(""), Str("2025")}
PathItems ==
  {Defined([text |-> t, facets |-> f, record |-> r, value |-> v, post |-> p, indexedAt |-> d]) :
     t \in PathTexts, f \in PathFacets, r \in PathRecords, v \in PathValues, p \in PathPosts,
     d \in PathDates}

\* a post view as it is, or wrapped in a feed item
RawItems ==
  {Undef, Null, EmptyObject, Num(5), Str("bad")}
    \cup PostViews
    \cup PathItems
    \cup {Defined([post |-> p, reason |-> r]) : p \in PostViews \cup {Null}, r \in RawReasons}

\* normalizePost(postInput) returns
NormalizePost ==
  /\ normPost = NotRun
  /\ normPost' = normalizePost(postInput)
  /\ UNCHANGED postInput
  /\ UNCHANGED outsideNorm

\* --------------------------------- useRichTextSegments (part_004)

\* A text is a JavaScript string: a sequence of UTF-16 code units.  The
\* characters of the model are "a" (1 byte in UTF-8), "é" (2 bytes), "€"
\* (3 bytes) and an emoji outside the basic plane (4 bytes), which is the two
\* code units "H" and "L" (its high and its low surrogate).
Chars == {<<"a">>, <<"é">>, <<"€">>, <<"H", "L">>}

\* the texts of at most n characters
RECURSIVE TextsOf(_)
TextsOf(n) ==
  IF n = 0 THEN {<<>>}
  ELSE TextsOf(n - 1) \cup {t \o c : t \in TextsOf(n - 1), c \in Chars}

MaxChars == 2
Texts == TextsOf(MaxChars)

\* the value of a converter's argument or result that does not exist yet
NotConverted == -2

\* encoder.encode(text[i]).length (lines 828, 857): the UTF-8 length of one
\* code unit taken alone; a surrogate taken alone is encoded as U+FFFD, which
\* has 3 bytes
EncodedLength(unit) ==
  CASE unit = "a" -> 1
    [] unit = "é" -> 2
    [] unit = "€" -> 3
    [] unit \in {"H", "L"} -> 3

\* the bytes a code unit adds to encoder.encode(text) (lines 823, 849): the
\* 4 bytes of a surrogate pair are counted at its high surrogate
Utf8Bytes(unit) ==
  CASE unit = "a" -> 1
    [] unit = "é" -> 2
    [] unit = "€" -> 3
    [] unit = "H" -> 4
    [] unit = "L" -> 0

\* bytes.length (lines 823, 849)
RECURSIVE BytesLength(_)
BytesLength(text) ==
  IF text = <<>> THEN 0 ELSE Utf8Bytes(Head(text)) + BytesLength(Tail(text))

\* indices (lines 824-831), and the keys of byteToUtf16Map (lines 853-860):
\* the byte position the converters give the code unit index i
RECURSIVE indices(_, _)
indices(text, i) ==
  IF i = 0 THEN 0 ELSE indices(text, i - 1) + EncodedLength(text[i])

\* the function createUtf16ToByteConverter returns (lines 833-838); -1 when
\* it throws
utf16ToByte(text, utf16Index) ==
  IF utf16Index < 0 \/ utf16Index > Len(text) THEN -1
  ELSE indices(text, utf16Index)

\* the function createByteToUtf16Converter returns (lines 862-880): the
\* index stored at the byte position, or at the nearest smaller position of
\* the map; -1 when it throws
byteToUtf16(text, byteIndex) ==
  IF byteIndex < 0 \/ byteIndex > BytesLength(text) THEN -1
  ELSE IF \E i \in 0..Len(text) : indices(text, i) = byteIndex
  THEN CHOOSE i \in 0..Len(text) : indices(text, i) = byteIndex
  ELSE CHOOSE i \in 0..Len(text) :
         /\ indices(text, i) < byteIndex
         /\ \A j \in 0..Len(text) : indices(text, j) < byteIndex => j <= i

\* text.substring(start, end): the arguments are clamped to the text and
\* swapped when start > end
Clamp(text, i) == IF i < 0 THEN 0 ELSE IF i > Len(text) THEN Len(text) ELSE i
substring(text, start, end) ==
  LET lo == IF Clamp(text, start) <= Clamp(text, end) THEN Clamp(text, start)
            ELSE Clamp(text, end)
      hi == IF Clamp(text, start) <= Clamp(text, end) THEN Clamp(text, end)
            ELSE Clamp(text, start)
  IN SubSeq(text, lo + 1, hi)

\* the features of a facet
Mention == [type |-> "app.bsky.richtext.facet#mention", did |-> "did:1"]
Link == [type |-> "app.bsky.richtext.facet#link", uri |-> "https://x"]
Tag == [type |-> "app.bsky.richtext.facet#tag", tag |-> "t"]
Unknown == [type |-> "app.bsky.richtext.facet#other"]

\* if / else if / else if on feature.$type (lines 933-957); <<>> for a
\* feature that is not recognised
SegmentOf(feature, utf16Start, utf16End, facetText) ==
  IF feature.type = Mention.type
  THEN <<[type |-> "mention", start |-> utf16Start, end |-> utf16End, text |-> facetText,
          did |-> feature.did]>>
  ELSE IF feature.type = Link.type
  THEN <<[type |-> "link", start |-> utf16Start, end |-> utf16End, text |-> facetText,
          url |-> feature.uri]>>
  ELSE IF feature.type = Tag.type
  THEN <<[type |-> "hashtag", start |-> utf16Start, end |-> utf16End, text |-> facetText,
          tag |-> feature.tag]>>
  ELSE <<>>

\* for (const feature of facet.features) (lines 930-962)
RECURSIVE FeatureSegments(_, _, _, _)
FeatureSegments(features, utf16Start, utf16End, facetText) ==
  IF features = <<>> THEN <<>>
  ELSE SegmentOf(Head(features), utf16Start, utf16End, facetText)
         \o FeatureSegments(Tail(features), utf16Start, utf16End, facetText)

\* the segments of one facet (lines 924-966): none when a conversion throws
FacetSegments(text, facet) ==
  LET utf16Start == byteToUtf16(text, facet.index.byteStart)
      utf16End == byteToUtf16(text, facet.index.byteEnd)
  IN IF utf16Start = -1 \/ utf16End = -1 THEN <<>>
     ELSE FeatureSegments(facet.features, utf16Start, utf16End,
                          substring(text, utf16Start, utf16End))

\* for (const facet of facets) (lines 905-967)
RECURSIVE BuildSegments(_, _)
BuildSegments(text, facets) ==
  IF facets = <<>> THEN <<>>
  ELSE FacetSegments(text, Head(facets)) \o BuildSegments(text, Tail(facets))

\* a comparator under which equal starts change places (a faulty variant,
\* for C28)
StaysBeforeStrict(a, b) == a.start - b.start < 0

\* (a, b) => a.start - b.start (line 970), for a before b in the array: a
\* stays before b unless the difference is positive
StaysBefore(a, b) == a.start - b.start <= 0

\* segments.sort(...) (line 970): the sort is stable, equal starts keep
\* their order
RECURSIVE InsertByStart(_, _)
InsertByStart(sorted, s) ==
  IF sorted = <<>> THEN <<s>>
  ELSE IF StaysBefore(Head(sorted), s)
  THEN <<Head(sorted)>> \o InsertByStart(Tail(sorted), s)
  ELSE <<s>> \o sorted

RECURSIVE SortByStart(_)
SortByStart(segments) ==
  IF segments = <<>> THEN <<>>
  ELSE InsertByStart(SortByStart(SubSeq(segments, 1, Len(segments) - 1)),
                     segments[Len(segments)])

\* the overlap test of lines 980-982
Overlapping(current, valid) ==
  \/ current.start >= valid.start /\ current.start < valid.end
  \/ current.end > valid.start /\ current.end <= valid.end
  \/ current.start <= valid.start /\ current.end >= valid.end

\* validSegments (lines 973-992)
RECURSIVE ValidSegments(_, _)
ValidSegments(validSegments, segments) ==
  IF segments = <<>> THEN validSegments
  ELSE IF \E i \in 1..Len(validSegments) : Overlapping(Head(segments), validSegments[i])
  THEN ValidSegments(validSegments, Tail(segments))
  ELSE ValidSegments(Append(validSegments, Head(segments)), Tail(segments))

\* a segment of plain text (lines 1001-1004, 1015-1018)
TextSegment(t) == [type |-> "text", text |-> t]

\* no plain text before a segment (a faulty variant, for C25)
GapBeforeDropped(text, lastIndex, segment) == <<>>

\* the plain text before a segment (lines 1000-1005)
GapBefore(text, lastIndex, segment) ==
  IF segment.start > lastIndex
  THEN <<TextSegment(substring(text, lastIndex, segment.start))>>
  ELSE <<>>

\* result (lines 995-1019)
RECURSIVE BuildResult(_, _, _)
BuildResult(text, validSegments, lastIndex) ==
  IF validSegments = <<>>
  THEN IF lastIndex < Len(text) THEN <<TextSegment(substring(text, lastIndex, Len(text)))>>
       ELSE <<>>
  ELSE GapBefore(text, lastIndex, Head(validSegments))
       \o <<Head(validSegments)>>
       \o BuildResult(text, Tail(validSegments), Head(validSegments).end)

\* useRichTextSegments (lines 890-1028); every facet of the model has an
\* index of two numbers and an array of features (lines 906-921 skip no
\* facet), and nothing of the try block throws outside the inner try
useRichTextSegments(text, facets) ==
  IF text = <<>> THEN <<>>
  ELSE IF facets = <<>> THEN <<TextSegment(text)>>
  ELSE BuildResult(text, ValidSegments(<<>>, SortByStart(BuildSegments(text, facets))), 0)

\* The facets given with a text: byte offsets up to one past the end of the
\* text, in either order, and one of three lists of features.
FeatureLists == {<<Link>>, <<Mention, Tag>>, <<Unknown>>}
FacetsOf(text) ==
  {[index |-> [byteStart |-> s, byteEnd |-> e], features |-> f] :
     s \in 0..(BytesLength(text) + 1), e \in 0..(BytesLength(text) + 1), f \in FeatureLists}

\* the lists of at most n facets of the text
RECURSIVE FacetListsOf(_, _)
FacetListsOf(text, n) ==
  IF n = 0 THEN {<<>>}
  ELSE FacetListsOf(text, n - 1)
         \cup {Append(l, f) : l \in {k \in FacetListsOf(text, n - 1) : Len(k) = n - 1},
                              f \in FacetsOf(text)}

MaxFacets == 2

\* Three links on a text of three 1-byte characters: the lists in which a
\* facet can intersect a facet that was itself dropped.
ChainText == <<"a", "a", "a">>
ChainFacets == {f \in FacetsOf(ChainText) : f.features = <<Link>>}

\* the value of segResult before useRichTextSegments has returned
NotSegmented == <<[type |-> "pending"]>>

\* useRichTextSegments(segText, segFacets) returns
UseRichTextSegments ==
  /\ segResult = NotSegmented
  /\ gotUtf16 = NotConverted
  /\ segResult' = useRichTextSegments(segText, segFacets)
  /\ UNCHANGED <<segText, segFacets, givenByte, gotUtf16, gotByte>>
  /\ UNCHANGED outsideSeg

\* byteToUtf16(givenByte) returns or throws
ByteToUtf16 ==
  /\ segResult = NotSegmented
  /\ gotUtf16 = NotConverted
  /\ givenByte # NotConverted
  /\ gotUtf16' = byteToUtf16(segText, givenByte)
  /\ UNCHANGED <<segText, segFacets, segResult, givenByte, gotByte>>
  /\ UNCHANGED outsideSeg

\* utf16ToByte of that index returns
Utf16ToByte ==
  /\ gotUtf16 \notin {NotConverted, -1}
  /\ gotByte = NotConverted
  /\ gotByte' = utf16ToByte(segText, gotUtf16)
  /\ UNCHANGED <<segText, segFacets, segResult, givenByte, gotUtf16>>
  /\ UNCHANGED outsideSeg

\* ------------------------------------ throttleApiCalls (apiUtils.js)

\* MIN_TIME_BETWEEN_CALLS (line 23)
MIN_TIME_BETWEEN_CALLS == 5000

\* the clock is read in steps of one second, up to MaxTicks steps
TickMs == 1000
MaxTicks == 8

\* the handlers of App.jsx that await throttleApiCall() before their API
\* call (lines 93, 147, 259); each is run once
MaxCallers == 3
Callers == 1..MaxCallers

\* the value of startedAt for a caller whose API call has not begun
NotStarted == -1

\* throttleApiCalls up to its await, or to its end when it does not wait
\* (lines 21-33); lastApiCallTime is the lastApiCall of the current render
ThrottleCall(c) ==
  /\ thrPc[c] = "idle"
  /\ IF thrNow - lastApiCall < MIN_TIME_BETWEEN_CALLS
     THEN /\ thrPc' = [thrPc EXCEPT ![c] = "sleeping"]
          /\ wakeAt' = [wakeAt EXCEPT ![c] = thrNow + (MIN_TIME_BETWEEN_CALLS - (thrNow - lastApiCall))]
          /\ UNCHANGED <<lastApiCall, startedAt>>
     ELSE /\ thrPc' = [thrPc EXCEPT ![c] = "started"]
          /\ lastApiCall' = thrNow
          /\ startedAt' = [startedAt EXCEPT ![c] = thrNow]
          /\ UNCHANGED wakeAt
  /\ UNCHANGED thrNow
  /\ UNCHANGED outsideThrottle

\* the sleep ends: setLastApiCallTime(Date.now()) (line 33), and the caller
\* goes on to its API call
ThrottleWake(c) ==
  /\ thrPc[c] = "sleeping"
  /\ thrNow >= wakeAt[c]
  /\ thrPc' = [thrPc EXCEPT ![c] = "started"]
  /\ lastApiCall' = thrNow
  /\ startedAt' = [startedAt EXCEPT ![c] = thrNow]
  /\ UNCHANGED <<thrNow, wakeAt>>
  /\ UNCHANGED outsideThrottle

\* time passes, unless a sleep is due
ThrottleTick ==
  /\ thrNow < MIN_TIME_BETWEEN_CALLS + MaxTicks * TickMs
  /\ \A c \in Callers : thrPc[c] = "sleeping" => thrNow < wakeAt[c]
  /\ thrNow' = thrNow + TickMs
  /\ UNCHANGED <<lastApiCall, thrPc, wakeAt, startedAt>>
  /\ UNCHANGED outsideThrottle

\* ------------------------------------------------------- specifications

\* --------------------------------------------- useProfile (useProfile.js)

\* The clock of the profile hook ticks in units of cacheTime (5 minutes by
\* default, line 28).
ProfileCacheTime == 1
MaxProfileTime == 2
MaxProfileFetches == 3   \* network fetches of the profile (history, capped)

\* the follow state a profile shows; setProfile(null)
FollowStates == {"following", "notFollowing"}
NoProfile == "null"

\* profileCache.get(cacheKey) when the key is absent
NoCacheEntry == [present |-> FALSE, data |-> NoProfile, timestamp |-> 0]

\* cachedProfile && Date.now() - cachedProfile.timestamp < cacheTime (line 88)
ProfileCacheFresh(entry) == entry.present /\ profNow - entry.timestamp < ProfileCacheTime

\* fetchProfile up to its first await (lines 66-99).  seen is the
\* profileCache of the render whose closure is called.
fetchProfile(seen) ==
  IF ProfileCacheFresh(seen)
  THEN /\ profile' = seen.data
       /\ profLoading' = FALSE
       /\ UNCHANGED <<profFetching, netFetches>>
  ELSE /\ netFetches < MaxProfileFetches
       /\ profLoading' = TRUE
       /\ profFetching' = profFetching + 1
       /\ netFetches' = netFetches + 1
       /\ UNCHANGED profile

\* the effect (lines 353-357) or refreshProfile calls fetchProfile
RefreshProfile ==
  /\ fetchProfile(profileCache)
  /\ UNCHANGED <<profileCache, serverFollowing, profNow, toggle>>
  /\ UNCHANGED outsideProfile

\* withRetry resolves with the profile of the server (lines 170-181, 224-227)
ProfileResolves ==
  /\ profFetching > 0
  /\ profFetching' = profFetching - 1
  /\ profile' = serverFollowing
  /\ profileCache' = [present |-> TRUE, data |-> serverFollowing, timestamp |-> profNow]
  /\ profLoading' = FALSE
  /\ UNCHANGED <<serverFollowing, profNow, toggle, netFetches>>
  /\ UNCHANGED outsideProfile

\* withRetry rejects (lines 182-227)
ProfileRejects ==
  /\ profFetching > 0
  /\ profFetching' = profFetching - 1
  /\ profile' = NoProfile
  /\ profLoading' = FALSE
  /\ UNCHANGED <<profileCache, serverFollowing, profNow, toggle, netFetches>>
  /\ UNCHANGED outsideProfile

\* toggleFollow(did, isFollowing) up to its await (lines 296-303).  Its
\* closure holds the fetchProfile, and so the profileCache, of this render.
ToggleFollow(isFollowing) ==
  /\ toggle.pc = "idle"
  /\ toggle' = [pc |-> "calling", isFollowing |-> isFollowing, seen |-> profileCache]
  /\ UNCHANGED <<profile, profLoading, profFetching, profileCache, serverFollowing,
                 profNow, netFetches>>
  /\ UNCHANGED outsideProfile

\* the follow or the unfollow went through at the server and withRetry
\* resolves; toggleFollow calls fetchProfile() (lines 333-336)
ToggleSucceeds ==
  /\ toggle.pc = "calling"
  /\ serverFollowing' = IF toggle.isFollowing THEN "notFollowing" ELSE "following"
  /\ fetchProfile(toggle.seen)
  /\ toggle' = [pc |-> "idle", isFollowing |-> FALSE, seen |-> NoCacheEntry]
  /\ UNCHANGED <<profileCache, profNow>>
  /\ UNCHANGED outsideProfile

\* withRetry rejects: toggleFollow returns the failure (lines 337-347)
ToggleFails ==
  /\ toggle.pc = "calling"
  /\ toggle' = [pc |-> "idle", isFollowing |-> FALSE, seen |-> NoCacheEntry]
  /\ UNCHANGED <<profile, profLoading, profFetching, profileCache, serverFollowing,
                 profNow, netFetches>>
  /\ UNCHANGED outsideProfile

\* Time passes
ProfileTick ==
  /\ profNow < MaxProfileTime
  /\ profNow' = profNow + 1
  /\ UNCHANGED <<profile, profLoading, profFetching, profileCache, serverFollowing,
                 toggle, netFetches>>
  /\ UNCHANGED outsideProfile

\* --------------------------------------------------- useAuth (useAuth.js)

MaxRestores == 2     \* calls of restoreSession in flight at a time

RestoreSlots == 1..MaxRestores

\* setUser(null); setUser(session), the stored session taken as the user
\* (line 306); setUser of the data of a response (lines 90, 259)
NoUser == "null"
SessionUser == "session"
VerifiedUser == "user"

\* no call of login awaits withRetry
NoLogin == [pc |-> "idle", sinceLogout |-> FALSE]

\* restoreSession() up to its first await (lines 175-216).  expired: the
\* stored session is older than 24 hours (lines 193-194).
RestoreSession(expired) ==
  /\ DOMAIN restores # RestoreSlots
  /\ IF ~stored
     THEN /\ user' = NoUser
          /\ UNCHANGED <<stored, restores>>
     ELSE IF expired
     THEN /\ stored' = FALSE
          /\ user' = NoUser
          /\ UNCHANGED restores
     ELSE /\ restores' =
               restores @@ ((CHOOSE s \in RestoreSlots : s \notin DOMAIN restores) :> "verifying")
          /\ UNCHANGED <<user, stored>>
  /\ UNCHANGED <<login, loggedOut>>
  /\ UNCHANGED outsideAuth

\* getProfile fails with 401 and refreshSession() resolves: the new tokens
\* are stored and getProfile is called again (lines 223-241)
RestoreRefreshes(s) ==
  /\ s \in DOMAIN restores
  /\ restores[s] = "verifying"
  /\ stored' = TRUE
  /\ restores' = [restores EXCEPT ![s] = "refreshed"]
  /\ UNCHANGED <<user, login, loggedOut>>
  /\ UNCHANGED outsideAuth

\* withRetry resolves with the profile (lines 259-275)
RestoreVerified(s) ==
  /\ s \in DOMAIN restores
  /\ user' = VerifiedUser
  /\ stored' = TRUE
  /\ restores' = [t \in DOMAIN restores \ {s} |-> restores[t]]
  /\ UNCHANGED <<login, loggedOut>>
  /\ UNCHANGED outsideAuth

\* withRetry rejects with an OfflineError: the session is kept (lines 301-306)
RestoreOffline(s) ==
  /\ s \in DOMAIN restores
  /\ user' = SessionUser
  /\ restores' = [t \in DOMAIN restores \ {s} |-> restores[t]]
  /\ UNCHANGED <<stored, login, loggedOut>>
  /\ UNCHANGED outsideAuth

\* withRetry rejects with an auth error or another error (lines 280-295,
\* 307-311)
RestoreFails(s) ==
  /\ s \in DOMAIN restores
  /\ stored' = FALSE
  /\ user' = NoUser
  /\ restores' = [t \in DOMAIN restores \ {s} |-> restores[t]]
  /\ UNCHANGED <<login, loggedOut>>
  /\ UNCHANGED outsideAuth

\* login(username, password) up to its await (lines 38-49)
Login ==
  /\ login.pc = "idle"
  /\ login' = [pc |-> "calling", sinceLogout |-> TRUE]
  /\ UNCHANGED <<user, stored, restores, loggedOut>>
  /\ UNCHANGED outsideAuth

\* withRetry resolves: the user is set and the session stored (lines 89-106)
LoginSucceeds ==
  /\ login.pc = "calling"
  /\ user' = VerifiedUser
  /\ stored' = TRUE
  /\ loggedOut' = (loggedOut /\ ~login.sinceLogout)
  /\ login' = NoLogin
  /\ UNCHANGED restores
  /\ UNCHANGED outsideAuth

\* withRetry rejects (lines 107-153)
LoginFails ==
  /\ login.pc = "calling"
  /\ user' = NoUser
  /\ login' = NoLogin
  /\ UNCHANGED <<stored, restores, loggedOut>>
  /\ UNCHANGED outsideAuth

\* logout() (lines 159-172)
Logout ==
  /\ stored' = FALSE
  /\ user' = NoUser
  /\ loggedOut' = TRUE
  /\ login' = [login EXCEPT !.sinceLogout = FALSE]
  /\ UNCHANGED restores
  /\ UNCHANGED outsideAuth

\* useAuth is not mounted
AuthIdle ==
  /\ user = NoUser
  /\ stored = FALSE
  /\ restores = [s \in {} |-> "verifying"]
  /\ login = NoLogin
  /\ loggedOut = FALSE

\* ------------------------------------------ the RichText component (part_000)

\* The texts RichText is given: short texts of letters and spaces, and texts
\* with a URL.  The offsets of a facet are used as indices of the string
\* (lines 62, 92), so the characters all have one code unit here.
MaxRichChars == 3
MaxRichFacets == 2
RichChars == {"a", " "}
Url == <<"h", "t", "t", "p", ":", "/", "/", "a">>
UrlTexts == {Url, <<"a", " ">> \o Url, Url \o <<" ", "a">>, <<"a">> \o Url}

\* the facets of a text with its offsets in 0 .. length + 1, any order
RichFacetsOf(text) ==
  {[index |-> [byteStart |-> s, byteEnd |-> e], features |-> f] :
     s \in 0..(Len(text) + 1), e \in 0..(Len(text) + 1), f \in FeatureLists}

\* (a?.index?.byteStart || 0) - (b?.index?.byteStart || 0) <= 0: a stable
\* sort leaves a before b (lines 44-46)
FacetStaysBefore(a, b) == a.index.byteStart - b.index.byteStart <= 0

\* [...facets].sort(...) (lines 43-47)
RECURSIVE SortFacets(_)
SortFacets(facets) ==
  IF facets = <<>> THEN <<>>
  ELSE LET sorted == SortFacets(SubSeq(facets, 1, Len(facets) - 1))
           f == facets[Len(facets)]
           keep == {i \in 1..Len(sorted) : \A j \in 1..i : FacetStaysBefore(sorted[j], f)}
           n == Cardinality(keep)
       IN SubSeq(sorted, 1, n) \o <<f>> \o SubSeq(sorted, n + 1, Len(sorted))

\* the feature that gives the segment its type: the first mention, link or
\* tag of facet.features, if any (lines 68-87)
RECURSIVE FacetData(_)
FacetData(features) ==
  IF features = <<>> THEN Unknown
  ELSE IF Head(features).type \in {Mention.type, Link.type, Tag.type} THEN Head(features)
  ELSE FacetData(Tail(features))

FacetType(features) ==
  IF FacetData(features).type = Mention.type THEN "mention"
  ELSE IF FacetData(features).type = Link.type THEN "link"
  ELSE IF FacetData(features).type = Tag.type THEN "hashtag"
  ELSE "text"

\* !facet?.index?.byteStart || !facet?.index?.byteEnd (line 54): 0 is falsy
FacetSkipped(facet) == facet.index.byteStart = 0 \/ facet.index.byteEnd = 0

\* the segments of the loop over the sorted facets and the rest of the text
\* (lines 53-107); the key of a segment is left out
RECURSIVE FacetLoop(_, _, _)
FacetLoop(text, sortedFacets, currentPosition) ==
  IF sortedFacets = <<>>
  THEN IF currentPosition < Len(text)
       THEN <<[type |-> "text", text |-> substring(text, currentPosition, Len(text))]>>
       ELSE <<>>
  ELSE LET facet == Head(sortedFacets)
           byteStart == facet.index.byteStart
           byteEnd == facet.index.byteEnd
       IN IF FacetSkipped(facet)
          THEN FacetLoop(text, Tail(sortedFacets), currentPosition)
          ELSE (IF byteStart > currentPosition
                THEN <<[type |-> "text", text |-> substring(text, currentPosition, byteStart)]>>
                ELSE <<>>)
               \o <<[type |-> FacetType(facet.features),
                     text |-> substring(text, byteStart, byteEnd),
                     data |-> FacetData(facet.features)]>>
               \o FacetLoop(text, Tail(sortedFacets), byteEnd)

\* the pattern is at position i of the text (0-based)
IsAt(text, i, pattern) ==
  /\ i + Len(pattern) <= Len(text)
  /\ SubSeq(text, i + 1, i + Len(pattern)) = pattern

\* the length of https?:\/\/ at position i, 0 when it is not there
SchemeLength(text, i) ==
  IF IsAt(text, i, <<"h", "t", "t", "p", ":", "/", "/">>) THEN 7
  ELSE IF IsAt(text, i, <<"h", "t", "t", "p", "s", ":", "/", "/">>) THEN 8
  ELSE 0

\* /(https?:\/\/[^\s]+)/ matches at position i (line 112)
MatchesAt(text, i) ==
  /\ SchemeLength(text, i) > 0
  /\ i + SchemeLength(text, i) < Len(text)
  /\ text[i + SchemeLength(text, i) + 1] # " "

\* the end of the match that begins at i: [^\s]+ is greedy
MatchEnd(text, i) ==
  LET spaces == {j \in (i + SchemeLength(text, i))..(Len(text) - 1) : text[j + 1] = " "}
  IN IF spaces = {} THEN Len(text) ELSE CHOOSE j \in spaces : \A k \in spaces : j <= k

\* urlRegex.exec(textToProcess) with urlRegex.lastIndex = from: the index of
\* the match, -1 for null (line 123)
Exec(text, from) ==
  LET found == {i \in from..(Len(text) - 1) : MatchesAt(text, i)}
  IN IF found = {} THEN -1 ELSE CHOOSE i \in found : \A k \in found : i <= k

\* the while loop over the matches of one text segment and what follows it
\* (lines 117-156)
RECURSIVE LinkifySegment(_, _, _)
LinkifySegment(segment, lastIndex, hasMatches) ==
  LET textToProcess == segment.text
      index == Exec(textToProcess, lastIndex)
  IN IF index = -1
     THEN IF hasMatches /\ lastIndex < Len(textToProcess)
          THEN <<[type |-> "text", text |-> substring(textToProcess, lastIndex, Len(textToProcess))]>>
          ELSE IF ~hasMatches THEN <<segment>> ELSE <<>>
     ELSE (IF index > lastIndex
           THEN <<[type |-> "text", text |-> substring(textToProcess, lastIndex, index)]>>
           ELSE <<>>)
          \o <<[type |-> "autolink",
                text |-> substring(textToProcess, index, MatchEnd(textToProcess, index)),
                data |-> [uri |-> substring(textToProcess, index, MatchEnd(textToProcess, index))]]>>
          \o LinkifySegment(segment, MatchEnd(textToProcess, index), TRUE)

\* the pass over the segments (lines 110-164)
RECURSIVE Linkify(_)
Linkify(segments) ==
  IF segments = <<>> THEN <<>>
  ELSE (IF Head(segments).type = "text"
        THEN LinkifySegment(Head(segments), 0, FALSE)
        ELSE <<Head(segments)>>)
       \o Linkify(Tail(segments))

\* processedContent (lines 39-167)
processedContent(text, facets, linkify) ==
  IF text = <<>> THEN <<>>
  ELSE IF linkify THEN Linkify(FacetLoop(text, SortFacets(facets), 0))
  ELSE FacetLoop(text, SortFacets(facets), 0)

\* RichText renders: processedContent is computed
RenderRichText ==
  /\ richContent = NotSegmented
  /\ richContent' = processedContent(richText, richFacets, linkifyUrls)
  /\ UNCHANGED <<richText, richFacets, linkifyUrls>>
  /\ UNCHANGED outsideRich

\* RichText is not mounted
RichIdle ==
  /\ richText = <<>>
  /\ richFacets = <<>>
  /\ linkifyUrls = TRUE
  /\ richContent = NotSegmented

\* useProfile is not mounted
ProfileIdle ==
  /\ profile = NoProfile
  /\ profLoading = TRUE
  /\ profileCache = NoCacheEntry
  /\ profFetching = 0
  /\ serverFollowing = "notFollowing"
  /\ profNow = 0
  /\ toggle = [pc |-> "idle", isFollowing |-> FALSE, seen |-> NoCacheEntry]
  /\ netFetches = 0

\* the hooks that are not mounted
HooksIdle == ProfileIdle /\ AuthIdle /\ RichIdle

\* App has been mounted (line 27) and no handler has run
ThrottleIdle ==
  /\ thrNow = MIN_TIME_BETWEEN_CALLS
  /\ lastApiCall = 0
  /\ thrPc = [c \in Callers |-> "idle"]
  /\ wakeAt = [c \in Callers |-> 0]
  /\ startedAt = [c \in Callers |-> NotStarted]

\* the segmenter and the converters have not been called
SegIdle ==
  /\ segText = <<>>
  /\ segFacets = <<>>
  /\ segResult = NotSegmented
  /\ givenByte = NotConverted
  /\ gotUtf16 = NotConverted
  /\ gotByte = NotConverted

\* normalizePost has not been called
NormIdle ==
  /\ postInput = Undef
  /\ normPost = NotRun

\* withRetry has not been called
RetryIdle ==
  /\ options = [maxRetries |-> 3, baseDelay |-> 1000, maxDelay |-> 30000,
                jitter |-> TRUE, shouldRetry |-> "default"]
  /\ attempt = 0
  /\ lastError = NoLastError
  /\ delay = 0
  /\ outcome = "idle"
  /\ resolved = 0
  /\ thrown = NoLastError
  /\ fnCalls = 0
  /\ serverOnly = TRUE

\* The state after the first render and its effect (lines 35-61, 323-333):
\* the cache is empty, so the load of the first key is in flight.
Init ==
  /\ RetryIdle
  /\ NormIdle
  /\ SegIdle
  /\ ThrottleIdle
  /\ HooksIdle
  /\ posts = <<>>
  /\ cursor = NullCursor
  /\ loading = TRUE
  /\ error = NoError
  /\ hasMore = TRUE
  /\ retryCountRef = 0
  /\ ctrl = 1
  /\ cache = [k \in {} |-> 0]
  /\ key = 1
  /\ now = 0
  /\ reqs = (1 :> [lm |-> FALSE, fr |-> FALSE, key |-> 1, ids |-> {}, ccur |-> NullCursor,
                   sent |-> NullCursor, held |-> <<>>, tries |-> 1,
                   aborted |-> FALSE, superseded |-> FALSE])
  /\ timers = [t \in {} |-> 0]
  /\ lastOp = "load"
  /\ calls = 0
  /\ fetched = FALSE
  /\ wasReset = FALSE

Next ==
  \/ \E k \in Keys : EffectRun(k)
  \/ LoadMore
  \/ Refresh
  \/ ResetData
  \/ \E s \in Slots, page \in Pages, cur \in Cursors : RespondSuccess(s, page, cur)
  \/ \E s \in Slots : RespondAbort(s)
  \/ \E s \in Slots, e \in Errors : RespondRetry(s, e)
  \/ \E s \in Slots, e \in Errors : RespondFail(s, e)
  \/ \E t \in TimerSlots : TimerFire(t)
  \/ Tick

Spec == Init /\ [][Next]_vars

\* The scheduling the code can rely on: a pending setTimeout callback runs,
\* and a call whose signal was aborted rejects.  Nothing makes an un-aborted
\* network call respond.
FairSpec ==
  /\ Spec
  /\ WF_vars(\E t \in TimerSlots : TimerFire(t))
  /\ WF_vars(\E s \in Slots : RespondAbort(s))

\* the call of slot s responds: it resolves, or it rejects with an error or
\* with the AbortError of its signal
Responds(s) ==
  \/ \E page \in Pages, cur \in Cursors : RespondSuccess(s, page, cur)
  \/ \E e \in Errors : RespondRetry(s, e)
  \/ \E e \in Errors : RespondFail(s, e)
  \/ RespondAbort(s)

\* The scheduling of FairSpec with an agent whose every call responds.
ResponsiveSpec ==
  /\ Spec
  /\ WF_vars(\E t \in TimerSlots : TimerFire(t))
  /\ \A s \in Slots : WF_vars(Responds(s))

\* The hook as the Feed component uses it: feedType or params change,
\* the list asks for more, the refresh button is clicked.  Feed mounts with
\* an empty cache, so after its two effects the state is that of Init.
FeedNext ==
  \/ \E k \in Keys : FeedTypeChange(k)
  \/ \E k \in Keys : EffectRun(k)
  \/ LoadMoreItems
  \/ Refresh
  \/ \E s \in Slots : Responds(s)
  \/ \E t \in TimerSlots : TimerFire(t)
  \/ Tick

FeedSpec == Init /\ [][FeedNext]_vars

\* the hook before its first effect (lines 35-61): nothing is in flight
FeedIdle ==
  /\ posts = <<>>
  /\ cursor = NullCursor
  /\ loading = FALSE
  /\ error = NoError
  /\ hasMore = TRUE
  /\ retryCountRef = 0
  /\ ctrl = 0
  /\ cache = [k \in {} |-> 0]
  /\ key = 1
  /\ now = 0
  /\ reqs = [s \in {} |-> 0]
  /\ timers = [t \in {} |-> 0]
  /\ lastOp = "none"
  /\ calls = 0
  /\ fetched = FALSE
  /\ wasReset = FALSE

\* withRetry(fn, options) has been called and the first call of fn is in
\* flight (lines 58-74)
RetryInit ==
  /\ FeedIdle
  /\ NormIdle
  /\ SegIdle
  /\ ThrottleIdle
  /\ HooksIdle
  /\ options \in Options
  /\ attempt = 0
  /\ lastError = NoLastError
  /\ delay = 0
  /\ outcome = "calling"
  /\ resolved = 0
  /\ thrown = NoLastError
  /\ fnCalls = 1
  /\ serverOnly = TRUE

RetryNext ==
  \/ FnResolves
  \/ \E f \in Failures, r \in JitterPercents, c \in BOOLEAN :
       /\ (options.shouldRetry = "default" => c)
       /\ FnRejectsRetry(f, r, c)
  \/ \E f \in Failures, c \in BOOLEAN :
       /\ (options.shouldRetry = "default" => c)
       /\ FnRejectsThrow(f, c)
  \/ SleepEnds

RetrySpec == RetryInit /\ [][RetryNext]_vars

\* normalizePost is about to be applied to one raw item
NormInit ==
  /\ FeedIdle
  /\ RetryIdle
  /\ SegIdle
  /\ ThrottleIdle
  /\ HooksIdle
  /\ postInput \in RawItems
  /\ normPost = NotRun

NormNext == NormalizePost

NormSpec == NormInit /\ [][NormNext]_vars

\* useRichTextSegments is about to be applied to a text and its facets
SegInit ==
  /\ FeedIdle
  /\ RetryIdle
  /\ NormIdle
  /\ ThrottleIdle
  /\ HooksIdle
  /\ \/ /\ segText \in Texts
        /\ segFacets \in FacetListsOf(segText, MaxFacets)
     \/ /\ segText = ChainText
        /\ segFacets \in [1..3 -> ChainFacets]
  /\ segResult = NotSegmented
  /\ givenByte = NotConverted
  /\ gotUtf16 = NotConverted
  /\ gotByte = NotConverted

SegNext == UseRichTextSegments

SegSpec == SegInit /\ [][SegNext]_vars

\* the texts the converters are made for
MaxConvChars == 3

\* a byte offset, inside the text or one past its end, is about to be
\* converted to a UTF-16 index and back
ConvInit ==
  /\ FeedIdle
  /\ RetryIdle
  /\ NormIdle
  /\ ThrottleIdle
  /\ HooksIdle
  /\ segText \in TextsOf(MaxConvChars)
  /\ segFacets = <<>>
  /\ segResult = NotSegmented
  /\ givenByte \in 0..(BytesLength(segText) + 1)
  /\ gotUtf16 = NotConverted
  /\ gotByte = NotConverted

ConvNext ==
  \/ ByteToUtf16
  \/ Utf16ToByte

ConvSpec == ConvInit /\ [][ConvNext]_vars

\* App is mounted; the clock has long passed MIN_TIME_BETWEEN_CALLS
ThrottleInit ==
  /\ FeedIdle
  /\ RetryIdle
  /\ NormIdle
  /\ SegIdle
  /\ ThrottleIdle
  /\ HooksIdle

ThrottleNext ==
  \/ \E c \in Callers : ThrottleCall(c)
  \/ \E c \in Callers : ThrottleWake(c)
  \/ ThrottleTick

ThrottleSpec == ThrottleInit /\ [][ThrottleNext]_vars

\* useProfile has mounted with an agent and a handle: its effect has called
\* fetchProfile, the cache is empty, the fetch is in flight (lines 31-40,
\* 353-357).  The viewer follows the profile or does not.
ProfileInit ==
  /\ FeedIdle
  /\ RetryIdle
  /\ NormIdle
  /\ SegIdle
  /\ ThrottleIdle
  /\ AuthIdle
  /\ RichIdle
  /\ profile = NoProfile
  /\ profLoading = TRUE
  /\ profileCache = NoCacheEntry
  /\ profFetching = 1
  /\ serverFollowing \in FollowStates
  /\ profNow = 0
  /\ toggle = [pc |-> "idle", isFollowing |-> FALSE, seen |-> NoCacheEntry]
  /\ netFetches = 1

ProfileNext ==
  \/ RefreshProfile
  \/ ProfileResolves
  \/ ProfileRejects
  \/ \E isFollowing \in BOOLEAN : ToggleFollow(isFollowing)
  \/ ToggleSucceeds
  \/ ToggleFails
  \/ ProfileTick

ProfileSpec == ProfileInit /\ [][ProfileNext]_vars

\* useAuth has mounted (lines 23-27): the effect has not run yet, and
\* localStorage holds the session of an earlier visit or nothing.
AuthInit ==
  /\ FeedIdle
  /\ RetryIdle
  /\ NormIdle
  /\ SegIdle
  /\ ThrottleIdle
  /\ ProfileIdle
  /\ RichIdle
  /\ user = NoUser
  /\ stored \in BOOLEAN
  /\ restores = [s \in {} |-> "verifying"]
  /\ login = NoLogin
  /\ loggedOut = FALSE

AuthNext ==
  \/ \E expired \in BOOLEAN : RestoreSession(expired)
  \/ \E s \in RestoreSlots : RestoreRefreshes(s)
  \/ \E s \in RestoreSlots : RestoreVerified(s)
  \/ \E s \in RestoreSlots : RestoreOffline(s)
  \/ \E s \in RestoreSlots : RestoreFails(s)
  \/ Login
  \/ LoginSucceeds
  \/ LoginFails
  \/ Logout

AuthSpec == AuthInit /\ [][AuthNext]_vars

\* RichText is rendered with a text, its facets and the option
RichInit ==
  /\ FeedIdle
  /\ RetryIdle
  /\ NormIdle
  /\ SegIdle
  /\ ThrottleIdle
  /\ ProfileIdle
  /\ AuthIdle
  /\ \/ /\ richText \in SeqsOver(RichChars, MaxRichChars)
        /\ richFacets \in SeqsOver(RichFacetsOf(richText), MaxRichFacets)
     \/ /\ richText \in UrlTexts
        /\ richFacets \in SeqsOver(RichFacetsOf(richText), 1)
  /\ linkifyUrls \in BOOLEAN
  /\ richContent = NotSegmented

RichNext == RenderRichText

RichSpec == RichInit /\ [][RichNext]_vars

\* ------------------------------------------------------------------ claims

\* the calls in flight whose signal was not aborted
Live == {s \in DOMAIN reqs : ~reqs[s].aborted}

\* C1: once a newer load or refresh was started, the response of an earlier
\* request that arrives afterwards changes neither the held posts, nor the
\* held cursor, nor any cache entry.
C1_StaleResponseChangesNothing ==
  [][\A s \in DOMAIN reqs :
       (reqs[s].superseded /\ s \notin DOMAIN reqs')
         => (posts' = posts /\ cursor' = cursor /\ cache' = cache)]_vars

\* C2: every start of a load, loadMore or refresh aborts the request that is
\* still in flight: at no time are two un-aborted requests in flight.
C2_OneLiveRequest == Cardinality(Live) <= 1

\* the uris of a list of posts
UrisOf(q) == {q[i].uri : i \in 1..Len(q)}

\* C3: after any sequence of load, loadMore and refresh the held list never
\* contains two posts with the same uri.
C3_NoDuplicateUri ==
  \A i, j \in 1..Len(posts) : i # j => posts[i].uri # posts[j].uri

\* C4: after a successful loadMore the held list is the previous list followed,
\* in page order, by exactly the posts of the page whose uri is not in the
\* previous list.
C4_LoadMoreAppendsUnseen ==
  [][\A s \in DOMAIN reqs \ DOMAIN reqs', page \in Pages, cur \in Cursors :
       (reqs[s].lm /\ RespondSuccess(s, page, cur))
         => posts' = posts \o SelectSeq(page, LAMBDA p : p.uri \notin UrisOf(posts))]_vars

\* C5: when refresh() fails for good, the held list is the list that was held
\* when refresh() was called, and error is non-null.  Stated for the failures
\* that find the list as it was at the call.
C5_FailedRefreshKeepsPosts ==
  [][\A s \in DOMAIN reqs \ DOMAIN reqs', e \in Errors :
       (reqs[s].fr /\ posts = reqs[s].held /\ RespondFail(s, e))
         => (posts' = reqs[s].held /\ error' # NoError)]_vars

\* a load (not loadMore, not refresh) for key k starts: by the effect, or as
\* the retry of a failed load
LoadStarts(k) ==
  \/ EffectRun(k)
  \/ \E t \in DOMAIN timers :
       TimerFire(t) /\ ~timers[t].lm /\ ~timers[t].fr /\ timers[t].key = k

\* the entry of key k exists and is younger than cacheTime
Younger(k) == k \in DOMAIN cache /\ now - cache[k].timestamp < CacheTime

\* C6: a load for a key whose cache entry is younger than cacheTime sets the
\* held posts and cursor to those of the entry and issues no network call.
C6_FreshEntryServesLoad ==
  [][\A k \in Keys :
       (Younger(k) /\ LoadStarts(k))
         => /\ posts' = cache[k].data
            /\ cursor' = cache[k].cursor
            /\ DOMAIN reqs' \subseteq DOMAIN reqs]_vars

\* a cache hit has served a non-empty page and nothing is in flight
C6_Witness ==
  /\ lastOp = "loadHit"
  /\ Younger(key)
  /\ posts = cache[key].data
  /\ Len(posts) > 0
  /\ DOMAIN reqs = {}

\* C7: refresh() issues a request for page one (no cursor) whatever the cache
\* holds, and when the request of a refresh succeeds the held list becomes the
\* fetched page and the cache entry of its key is overwritten with it.
C7_RefreshBypassesCache ==
  [][/\ Refresh =>
          \E s \in DOMAIN reqs' \ DOMAIN reqs :
            reqs'[s].fr /\ ~reqs'[s].aborted /\ reqs'[s].sent = NullCursor
     /\ \A s \in DOMAIN reqs \ DOMAIN reqs', page \in Pages, cur \in Cursors :
          (reqs[s].fr /\ RespondSuccess(s, page, cur))
            => /\ posts' = page
               /\ cache'[reqs[s].key] = [timestamp |-> now, data |-> page, cursor |-> cur]]_vars

\* a refresh is in flight although the entry of its key is fresh
C7_Witness ==
  /\ lastOp = "refresh"
  /\ Younger(key)
  /\ \E s \in Live : reqs[s].fr /\ reqs[s].key = key /\ reqs[s].sent = NullCursor

\* C8: a cache entry is created or changed only by a successful fetch that is
\* not a loadMore, and then the whole entry is replaced under the key of that
\* request while the other entries stay as they are.
C8_CacheWrittenOnlyByFetch ==
  [][cache' # cache =>
       \E s \in DOMAIN reqs \ DOMAIN reqs', page \in Pages, cur \in Cursors :
         /\ ~reqs[s].lm
         /\ RespondSuccess(s, page, cur)
         /\ DOMAIN cache' = DOMAIN cache \cup {reqs[s].key}
         /\ cache'[reqs[s].key] = [timestamp |-> now, data |-> page, cursor |-> cur]
         /\ \A k \in DOMAIN cache \ {reqs[s].key} : cache'[k] = cache[k]]_vars

\* a fetch has just written the entry of one key next to an older entry of
\* the other key
C8_Witness ==
  /\ lastOp = "success"
  /\ \E k1, k2 \in DOMAIN cache :
       /\ k1 # k2
       /\ cache[k1].timestamp = now
       /\ cache[k2].timestamp < now
       /\ posts = cache[k1].data

\* a step sets the held posts and cursor from the entry of key k: the cache
\* hit of a load (lines 109-114) or the fallback of a failed fetch (296-299)
CacheHitStep(k) == LoadStarts(k) /\ lastOp' \in {"loadHit", "retryHit"}
FallbackStep(k) ==
  \E s \in DOMAIN reqs \ DOMAIN reqs', e \in Errors :
    reqs[s].key = k /\ UsesFallback(reqs[s]) /\ RespondFail(s, e)

C10_ResetKeepsCache ==
  [][/\ ResetData =>
          (posts' = <<>> /\ cursor' = NullCursor /\ error' = NoError /\ cache' = cache)
     /\ (lastOp = "reset" /\ Younger(key) /\ LoadStarts(key)) =>
          (posts' = cache[key].data /\ cursor' = cache[key].cursor
             /\ DOMAIN reqs' \subseteq DOMAIN reqs)]_vars

\* resetData() has emptied the held list while the entry of the key is fresh
C10_Witness ==
  /\ lastOp = "reset"
  /\ posts = <<>>
  /\ cursor = NullCursor
  /\ Younger(key)
  /\ Len(cache[key].data) > 0

\* C11: loadMore() issues a network request only when a cursor returned by a
\* previous page is held and no request of the session is in flight.
C11_LoadMoreNeedsCursorAndIdle ==
  [][(LoadMore /\ DOMAIN reqs' # DOMAIN reqs)
       => (cursor # NullCursor /\ Live = {})]_vars

\* C12: a request that ends with an AbortError sets no error, schedules no
\* retry and changes neither the held posts, nor the cursor, nor the cache.
C12_AbortIsSilent ==
  [][\A s \in DOMAIN reqs \ DOMAIN reqs' :
       reqs[s].aborted
         => /\ error' = error
            /\ timers' = timers
            /\ retryCountRef' = retryCountRef
            /\ posts' = posts
            /\ cursor' = cursor
            /\ cache' = cache]_vars

\* an aborted call has just ended while a list is held and the cache has an
\* entry: both are as the newer call left them, and no error is set
C12_Witness ==
  /\ lastOp = "aborted"
  /\ Len(posts) > 0
  /\ key \in DOMAIN cache
  /\ posts = cache[key].data
  /\ error = NoError
  /\ DOMAIN timers = {}

\* C13: a network call that never responds does not leave the session in the
\* loading state forever (it is ended as a timeout failure).
C13_LoadingEnds == []<>(~loading)

\* fn has just rejected: lastError' is the error of that call
FnRejected == outcome = "calling" /\ outcome' \in {"sleeping", "rejected"}

\* min(baseDelay * 2^attempt, maxDelay), the backoff before the jitter
CapAt(n) ==
  IF options.baseDelay * Pow2(n) < options.maxDelay
  THEN options.baseDelay * Pow2(n) ELSE options.maxDelay

\* three server errors in a row are each retried and the fourth call, which
\* succeeds, gives the value of withRetry (maxRetries = 3, default policy)
RetriedToSuccess ==
  /\ (FnRejected /\ serverOnly' /\ attempt < 3) => outcome' = "sleeping"
  /\ (FnResolves /\ serverOnly /\ fnCalls = 4) => (outcome' = "resolved" /\ resolved' = 4)

C15_AtMostMaxRetriesPlusOneCalls ==
  [][/\ fnCalls' <= options.maxRetries + 1
     /\ (FnRejected /\ attempt = options.maxRetries)
          => (outcome' = "rejected" /\ thrown' = lastError')]_vars

\* a policy of the caller retried every failure: the operation was called
\* maxRetries + 1 times and the error of the last call is thrown
C15_Witness ==
  /\ outcome = "rejected"
  /\ options.shouldRetry = "custom"
  /\ options.maxRetries = 3
  /\ attempt = 3
  /\ fnCalls = 4
  /\ thrown = lastError
  /\ thrown.name = "ValidationError"

\* an offline error, and an auth error: an AuthError, or an error whose
\* status is 401 or 403
IsOfflineError(e) == e.name = "OfflineError"
IsAuthError(e) == e.name = "AuthError" \/ e.status \in {401, 403}

C17_RetryAfterCappedAtFiveMinutes ==
  [][(FnRejected /\ outcome' = "sleeping"
        /\ lastError'.name = "RateLimitError" /\ lastError'.retryAfter # 0)
       => /\ delay' = Min(lastError'.retryAfter * 1000, 300000)
          /\ delay' <= 300000]_vars

\* C18: a request that fails with an auth error or an offline error is not
\* retried: no retry is ever pending for such a failure.
C18_AuthAndOfflineNotRetried ==
  \A t \in DOMAIN timers : timers[t].err \notin {"AuthError", "OfflineError"}

\* C19: the retry counter grows by one on each failure that is retried, and
\* is 0 after every successful fetch and after every fetch that is given up.
C19_RetryCounterResets ==
  [][\A s \in DOMAIN reqs \ DOMAIN reqs' :
       /\ (\E e \in Errors : RespondRetry(s, e)) => retryCountRef' = retryCountRef + 1
       /\ (\E e \in Errors : RespondFail(s, e)) => retryCountRef' = 0
       /\ (\E page \in Pages, cur \in Cursors : RespondSuccess(s, page, cur))
            => retryCountRef' = 0]_vars

\* C20: normalizePost never throws.  Whatever the raw item is - null,
\* undefined, an empty object, a payload with missing or malformed nested
\* fields - it returns an object in which every field of the canonical post
\* is defined, and for null, undefined and {} that object is the default post.
CanonicalFields == DOMAIN DEFAULT_POST.v
C20_NormalizePostNeverThrows ==
  normPost # NotRun =>
    /\ normPost # Throws
    /\ normPost.t = "object"
    /\ \A k \in CanonicalFields :
         k \in DOMAIN normPost.v /\ normPost.v[k] \notin {Undef, Throws}
    /\ postInput \in {Undef, Null, EmptyObject} => normPost = DEFAULT_POST

\* a post view with a uri whose labels are not an array of objects: the map
\* over the labels throws, and normalizePost returns the default post
C20_Witness ==
  /\ normPost = DEFAULT_POST
  /\ Get(postInput, "uri") = Str("at://post/1")
  /\ Get(postInput, "labels") = Arr(<<Null>>)
  /\ LabelsOf(postInput) = Throws

\* the raw item carries a reason of the repost kind
HasRepostReason(raw) ==
  /\ raw.t = "object"
  /\ Get(raw, "reason").t = "object"
  /\ Get(Get(raw, "reason"), "$type") = Str(ReasonRepost)

\* the unwrapped original post: raw.post when present, else raw
OriginalOf(raw) ==
  IF isValidObject(Get(raw, "post")) THEN Get(raw, "post") ELSE raw

\* the labels of the post are absent, or an array of objects
LabelsWellFormed(post) ==
  \/ ~isValidObject(Get(post, "labels"))
  \/ /\ Get(post, "labels").t = "array"
     /\ \A i \in 1..Len(Get(post, "labels").v) : isValidObject(Get(post, "labels").v[i])

\* what C21 says of the post returned for the raw item
RepostHandled(raw, post) ==
  IF HasRepostReason(raw)
  THEN /\ post.v.isRepost = Bool(TRUE)
       /\ post.v.repostedBy = normalizeAuthor(Get(Get(raw, "reason"), "by"))
       /\ post.v.author = getAuthorFromPost(OriginalOf(raw))
  ELSE /\ post.v.isRepost = Bool(FALSE)
       /\ post.v.repostedBy = Null

\* C21 as claimed: for every raw item with a reason of the repost kind,
\* normalizePost returns isRepost = true, repostedBy = the normalized
\* reason.by and author = the author of the unwrapped original post; for
\* every other item it returns isRepost = false and repostedBy = null.
C21_RepostAlwaysHandled ==
  normPost # NotRun => RepostHandled(postInput, normPost)

\* C21, amended: the same, for the raw items whose labels (those of the
\* original post for a repost, those of the item itself otherwise) are absent
\* or an array of objects; for the others the failure policy applies and the
\* default post (isRepost = false) is returned, repost or not.
C21_RepostHandledUnlessDefaulted ==
  normPost # NotRun =>
    IF LabelsWellFormed(IF HasRepostReason(postInput) THEN OriginalOf(postInput) ELSE postInput)
    THEN RepostHandled(postInput, normPost)
    ELSE normPost = DEFAULT_POST

\* a repost wrapper whose post and reason.by both carry an author
C21_Witness ==
  /\ normPost # NotRun
  /\ HasRepostReason(postInput)
  /\ normPost.v.isRepost = Bool(TRUE)
  /\ normPost.v.repostedBy.v.did = Str("did:2")
  /\ normPost.v.author.v.did = Str("did:1")
  /\ Get(Get(postInput, "post"), "uri") = Str("at://post/1")

\* C22: for a raw item whose embed is an external-link embed with a url
\* from which a YouTube id is extracted, normalizePost returns youtubeId
\* equal to that id and externalLink = null; in every post it returns,
\* youtubeId non-null implies externalLink = null.
C22_YoutubeNotDuplicated ==
  normPost # NotRun =>
    /\ normPost.v.youtubeId # Null => normPost.v.externalLink = Null
    /\ ( /\ LabelsWellFormed(postInput)
         /\ Get(postInput, "embed").t = "object"
         /\ Get(Get(postInput, "embed"), "$type") = Str(EmbedExternal)
         /\ Get(Get(Get(postInput, "embed"), "external"), "uri") = Str(YoutubeUrl) )
       => ( /\ normPost.v.youtubeId = Str("dQw4w9WgXcQ")
            /\ normPost.v.externalLink = Null )

\* x.a?.b?.c for a path <<a, b, c>>
RECURSIVE PathValue(_, _)
PathValue(x, path) ==
  IF path = <<>> THEN x
  ELSE IF ~isValidObject(x) THEN Undef
  ELSE PathValue(Get(x, Head(path)), Tail(path))

\* the value at the first path that is defined, or truthy, else the default
RECURSIVE FirstDefined(_, _, _)
FirstDefined(x, paths, default) ==
  IF paths = <<>> THEN default
  ELSE IF isValidObject(PathValue(x, Head(paths))) THEN PathValue(x, Head(paths))
  ELSE FirstDefined(x, Tail(paths), default)

RECURSIVE FirstTruthy(_, _, _)
FirstTruthy(x, paths, default) ==
  IF paths = <<>> THEN default
  ELSE IF Truthy(PathValue(x, Head(paths))) THEN PathValue(x, Head(paths))
  ELSE FirstTruthy(x, Tail(paths), default)

\* the candidate paths of each field, in order
UriPaths == << <<"uri">>, <<"post", "uri">>, <<"record", "uri">> >>
CidPaths == << <<"cid">>, <<"post", "cid">>, <<"record", "cid">> >>
TextPaths == << <<"text">>, <<"record", "text">>, <<"value", "text">>,
                <<"post", "record", "text">>, <<"post", "text">> >>
FacetsPaths == << <<"facets">>, <<"record", "facets">>, <<"value", "facets">>,
                  <<"post", "record", "facets">>, <<"post", "facets">> >>
IndexedAtPaths == << <<"indexedAt">>, <<"record", "createdAt">>, <<"value", "createdAt">>,
                     <<"post", "indexedAt">> >>
EmbedPaths == << <<"embed">>, <<"record", "embed">>, <<"value", "embed">>,
                 <<"post", "embed">>, <<"post", "record", "embed">> >>

\* the post normalizePost reads the fields of
ExaminedPost == IF HasRepostReason(postInput) THEN OriginalOf(postInput) ELSE postInput

\* normalizePost has returned, and not by its failure policy
Normalized ==
  /\ normPost # NotRun
  /\ isValidObject(postInput)
  /\ LabelsWellFormed(ExaminedPost)

Boundaries(text) == {BytesLength(SubSeq(text, 1, i)) : i \in 0..Len(text)}

\* the greatest boundary of the text that is at most b
BoundaryBelow(text, b) ==
  CHOOSE c \in Boundaries(text) : c <= b /\ \A d \in Boundaries(text) : d <= b => d <= c

\* C27: for every text and every byte offset b in [0, byte length of the
\* text], converting b to a UTF-16 index and that index back to a byte
\* offset gives the greatest UTF-8 character boundary that is at most b.
C27_RoundTripIsBoundaryBelow ==
  gotByte # NotConverted => gotByte = BoundaryBelow(segText, givenByte)

\* the segments of the result that come from a facet
Annotated(i) == segResult[i].type # "text"

\* the range of text a segment of the result stands for: its start and end
\* when it comes from a facet; a segment of plain text starts where the
\* segment before it ends (lastIndex) and has the length of its text
SegStart(i) ==
  IF Annotated(i) THEN segResult[i].start
  ELSE IF i = 1 THEN 0 ELSE segResult[i - 1].end
SegEnd(i) ==
  IF Annotated(i) THEN segResult[i].end ELSE SegStart(i) + Len(segResult[i].text)

\* the texts of the segments from the i-th on, joined
RECURSIVE JoinedFrom(_)
JoinedFrom(i) ==
  IF i > Len(segResult) THEN <<>> ELSE segResult[i].text \o JoinedFrom(i + 1)

Segmented == segResult # NotSegmented

\* C24: for every non-empty text and every list of facets, whatever their
\* ranges, the segments returned are strictly ordered by start, pairwise
\* non-overlapping, and cover [0, len(text)) without gap or repetition.
C24_SegmentsPartitionText ==
  (Segmented /\ segText # <<>>) =>
    /\ \A i, j \in 1..Len(segResult) : i < j => SegStart(i) < SegStart(j)
    /\ \A i, j \in 1..Len(segResult) : i < j => SegEnd(i) <= SegStart(j)
    /\ SegStart(1) = 0
    /\ \A i \in 1..(Len(segResult) - 1) : SegEnd(i) = SegStart(i + 1)
    /\ SegEnd(Len(segResult)) = Len(segText)
    /\ JoinedFrom(1) = segText

\* byteStart < byteEnd, the range inside the text
ProperFacet(f) ==
  /\ f.index.byteStart < f.index.byteEnd
  /\ f.index.byteEnd <= BytesLength(segText)

\* the byte ranges of two facets intersect
BytesIntersect(f, g) ==
  /\ f.index.byteStart < g.index.byteEnd
  /\ g.index.byteStart < f.index.byteEnd

\* well-formed facets: proper and pairwise disjoint
WellFormedFacets ==
  /\ \A i \in 1..Len(segFacets) : ProperFacet(segFacets[i])
  /\ \A i, j \in 1..Len(segFacets) : i < j => ~BytesIntersect(segFacets[i], segFacets[j])

\* C25: for every text and every set of well-formed facets, the texts of the
\* segments returned, joined in order, are the text.
C25_SegmentTextsJoinToText ==
  (Segmented /\ WellFormedFacets) => JoinedFrom(1) = segText

\* two disjoint facets on a text with an emoji: a mention, a link, and the
\* rest as plain text
C25_Witness ==
  /\ Segmented
  /\ WellFormedFacets
  /\ Len(segFacets) = 2
  /\ segText = <<"a", "H", "L">>
  /\ Len(segResult) = 3
  /\ segResult[1].type = "mention"
  /\ segResult[2].type = "link"
  /\ segResult[3].type = "text"
  /\ JoinedFrom(1) = segText

\* the UTF-16 index of the byte offset b, a character boundary of the text
Utf16Of(text, b) ==
  CHOOSE i \in 0..Len(text) :
    /\ BytesLength(SubSeq(text, 1, i)) = b
    /\ (i > 0 => text[i] # "H")

\* C26: for every facet whose byte range lies on character boundaries of
\* the text, the segment produced for it has the text whose UTF-8 encoding
\* occupies exactly those bytes, and its start and end are the UTF-16
\* offsets of that text.  (Checked for one facet with one link.)
C26_SegmentIsTheBytesOfTheFacet ==
  ( /\ Segmented
    /\ Len(segFacets) = 1
    /\ ProperFacet(segFacets[1])
    /\ segFacets[1].features = <<Link>>
    /\ segFacets[1].index.byteStart \in Boundaries(segText)
    /\ segFacets[1].index.byteEnd \in Boundaries(segText) )
  => \E i \in 1..Len(segResult) :
       /\ segResult[i].type = "link"
       /\ segResult[i].start = Utf16Of(segText, segFacets[1].index.byteStart)
       /\ segResult[i].end = Utf16Of(segText, segFacets[1].index.byteEnd)
       /\ segResult[i].text = SubSeq(segText, segResult[i].start + 1, segResult[i].end)

\* the number of recognised features in a list of features
RECURSIVE Recognised(_)
Recognised(features) ==
  IF features = <<>> THEN 0
  ELSE (IF Head(features).type \in {Mention.type, Link.type, Tag.type} THEN 1 ELSE 0)
       + Recognised(Tail(features))

\* C29: a facet that carries k recognised features contributes k segments
\* to the result, one per feature, all with the same start, end and text.
\* (Checked for one proper facet.)
C29_OneSegmentPerFeature ==
  ( /\ Segmented
    /\ Len(segFacets) = 1
    /\ ProperFacet(segFacets[1]) )
  => /\ Cardinality({i \in 1..Len(segResult) : Annotated(i)})
          = Recognised(segFacets[1].features)
     /\ \A i, j \in 1..Len(segResult) :
          (Annotated(i) /\ Annotated(j)) =>
            /\ segResult[i].start = segResult[j].start
            /\ segResult[i].end = segResult[j].end
            /\ segResult[i].text = segResult[j].text

\* the facets that give a segment: those with a recognised feature
Useful == {i \in 1..Len(segFacets) : Recognised(segFacets[i].features) > 0}

\* the range of the text the segments of the i-th facet have
SpanOf(i) ==
  [start |-> byteToUtf16(segText, segFacets[i].index.byteStart),
   end |-> byteToUtf16(segText, segFacets[i].index.byteEnd)]

\* the result has an annotated segment with this range
Kept(span) ==
  \E k \in 1..Len(segResult) :
    Annotated(k) /\ segResult[k].start = span.start /\ segResult[k].end = span.end

\* the i-th facet comes before the j-th: it starts earlier, or at the same
\* place and is earlier in the list
Earlier(i, j) ==
  \/ SpanOf(i).start < SpanOf(j).start
  \/ SpanOf(i).start = SpanOf(j).start /\ i < j

SpansIntersect(a, b) == a.start < b.end /\ b.start < a.end

\* the position p of the text is returned as plain text
PlainAt(p) ==
  \E k \in 1..Len(segResult) : ~Annotated(k) /\ SegStart(k) <= p /\ p < SegEnd(k)

\* every facet has byteStart < byteEnd inside the text, and a range that is
\* not empty after the conversion
ProperFacets ==
  \A i \in 1..Len(segFacets) :
    ProperFacet(segFacets[i]) /\ SpanOf(i).start < SpanOf(i).end

\* C28 as claimed: when two facets have intersecting ranges, the one that
\* starts earlier (the earlier in the list when the starts are equal) is
\* kept as an annotated segment, the other is dropped, and the part of the
\* dropped facet's range outside the kept one is returned as plain text.
C28_EarlierOfTwoWins ==
  (Segmented /\ ProperFacets) =>
    \A i, j \in Useful :
      (Earlier(i, j) /\ SpansIntersect(SpanOf(i), SpanOf(j)) /\ SpanOf(i) # SpanOf(j)) =>
        /\ Kept(SpanOf(i))
        /\ ~Kept(SpanOf(j))
        /\ \A p \in SpanOf(j).start..(SpanOf(j).end - 1) :
             (p < SpanOf(i).start \/ p >= SpanOf(i).end) => PlainAt(p)

\* C28, amended: the facets are taken in the order of their starts (the
\* order of the list for equal starts); a facet is kept as an annotated
\* segment exactly when its range intersects no facet kept before it - a
\* facet that only intersects dropped facets is kept - and every part of the
\* text outside the kept facets is returned as plain text.
C28_EarlierKeptWins ==
  (Segmented /\ ProperFacets /\ Useful # {}) =>
    /\ \A j \in Useful :
         Kept(SpanOf(j)) <=>
           ~\E i \in Useful : /\ Earlier(i, j)
                              /\ SpanOf(i) # SpanOf(j)
                              /\ Kept(SpanOf(i))
                              /\ SpansIntersect(SpanOf(i), SpanOf(j))
    /\ \A k \in 1..Len(segResult) :
         Annotated(k) =>
           /\ \E i \in Useful : SpanOf(i) = [start |-> segResult[k].start, end |-> segResult[k].end]
           /\ \A m \in 1..Len(segResult) :
                (Annotated(m) /\ segResult[m].start = segResult[k].start) => m = k
    /\ \A p \in 0..(Len(segText) - 1) :
         PlainAt(p) <=> ~\E i \in Useful : Kept(SpanOf(i)) /\ SpanOf(i).start <= p /\ p < SpanOf(i).end

\* three links on "aaa", at [0, 2), [1, 3) and [2, 3): the second is dropped
\* for the first, and the third, which only intersects the second, is kept
C28_Witness ==
  /\ Segmented
  /\ segText = ChainText
  /\ Len(segFacets) = 3
  /\ segFacets[1].index = [byteStart |-> 0, byteEnd |-> 2]
  /\ segFacets[2].index = [byteStart |-> 1, byteEnd |-> 3]
  /\ segFacets[3].index = [byteStart |-> 2, byteEnd |-> 3]
  /\ Len(segResult) = 2
  /\ segResult[1].start = 0 /\ segResult[1].end = 2
  /\ segResult[2].start = 2 /\ segResult[2].end = 3

\* C30: any two API calls that each wait for throttleApiCalls before they
\* start begin at least 5000 ms apart, whatever the interleaving of the
\* callers.
C30_CallsFiveSecondsApart ==
  \A c, d \in Callers :
    (c # d /\ startedAt[c] # NotStarted /\ startedAt[d] # NotStarted) =>
      \/ startedAt[c] - startedAt[d] >= MIN_TIME_BETWEEN_CALLS
      \/ startedAt[d] - startedAt[c] >= MIN_TIME_BETWEEN_CALLS

\* no call is in flight un-aborted, no retry is pending and loading is false
Settled == ~loading /\ Live = {} /\ DOMAIN timers = {}

\* C31: if every network call eventually responds, every load, refresh or
\* loadMore eventually settles - loading becomes and stays false - after at
\* most retryCount + 1 network calls for that operation.
C31_OperationsSettle ==
  /\ [](\A s \in DOMAIN reqs : reqs[s].tries <= RetryCount + 1)
  /\ <>[]Settled

\* C32: a retry that was scheduled for a failed request is never executed
\* after that request was superseded by a newer load or refresh or by a change
\* of feed type or parameters: the timer of a superseded retry issues no
\* network call.
C32_SupersededRetryNotExecuted ==
  [][\A t \in DOMAIN timers \ DOMAIN timers' :
       timers[t].superseded => DOMAIN reqs' \subseteq DOMAIN reqs]_vars

\* C33: in every reachable state in which a network request of the session
\* is in flight and has not been aborted, loading is true.
C33_LoadingWhileInFlight == Live # {} => loading

\* C34: in every state in which no request is in flight and a fetch or a
\* cache hit has completed since the last reset or parameter change, hasMore
\* is true exactly when the held cursor is non-null.
C34_HasMoreIffCursor ==
  (DOMAIN reqs = {} /\ fetched) => (hasMore <=> cursor # NullCursor)

\* C35: after resetData() the held post list stays empty and the cursor stays
\* null until the caller starts a new load, refresh or loadMore: neither a
\* request that was in flight nor a retry that was pending repopulates them.
C35_ResetStaysEmpty == wasReset => (posts = <<>> /\ cursor = NullCursor)

\* C36: when the feed type of the Feed component changes to a type whose
\* first page is in the cache and fresh, the component ends up holding the
\* cached posts, not an empty list.
C36_TypeChangeShowsCachedPosts ==
  [][\A k \in Keys :
       (FeedTypeChange(k) /\ CacheHit(FALSE, FALSE, k) /\ Len(cache[k].data) > 0)
         => posts' = cache[k].data]_vars

\* the argument of normalizePost is a feed item {post: P} of a post view P,
\* with no reason or with one that is not of the repost kind
PlainFeedItem ==
  /\ postInput.t = "object"
  /\ DOMAIN postInput.v \subseteq {"post", "reason"}
  /\ Get(postInput, "post") \in PostViews
  /\ ~HasRepostReason(postInput)

\* C37: for every raw post view P, normalizePost applied to the feed item
\* {post: P} without a repost reason and normalizePost applied to P itself
\* return equal Posts, likeCount, repostCount, replyCount and labels included.
C37_FeedItemNormalizedAsItsPost ==
  (normPost # NotRun /\ PlainFeedItem) => normPost = normalizePost(Get(postInput, "post"))

\* C38: after toggleFollow succeeds, the profile is fetched again from the
\* network, so that the held profile reflects the new follow state.
C38_ToggleRefetchesProfile ==
  [][ToggleSucceeds => netFetches' = netFetches + 1]_vars

\* C39: after logout() returns, user stays null and no session is stored in
\* localStorage until a later call of login() succeeds, for every
\* interleaving, a restoreSession() that was started before the logout and
\* completes after it included.
C39_LoggedOutStaysLoggedOut == loggedOut => (user = NoUser /\ ~stored)

\* the segments of processedContent that come from a facet
FromFacet == {j \in 1..Len(richContent) : richContent[j].type \in {"mention", "link", "hashtag"}}

\* the texts of the segments, joined in order
RECURSIVE JoinedTexts(_)
JoinedTexts(segments) ==
  IF segments = <<>> THEN <<>> ELSE Head(segments).text \o JoinedTexts(Tail(segments))

\* the facets are pairwise disjoint, each with
\* 0 <= byteStart < byteEnd <= length of the text and a recognised feature
RichWellFormed ==
  /\ \A i \in 1..Len(richFacets) :
       /\ 0 <= richFacets[i].index.byteStart
       /\ richFacets[i].index.byteStart < richFacets[i].index.byteEnd
       /\ richFacets[i].index.byteEnd <= Len(richText)
       /\ FacetType(richFacets[i].features) # "text"
  /\ \A i, j \in 1..Len(richFacets) :
       i # j => \/ richFacets[i].index.byteEnd <= richFacets[j].index.byteStart
                \/ richFacets[j].index.byteEnd <= richFacets[i].index.byteStart

\* C40: in the RichText component, for every text and every set of pairwise
\* disjoint facets with 0 <= byteStart < byteEnd <= length of the text and a
\* recognised feature, each facet produces exactly one segment of the kind
\* of its feature, and the texts of all segments joined in order give the
\* text, with linkifyUrls on or off.
C40_RichTextOneSegmentPerFacet ==
  (richContent # NotSegmented /\ richText # <<>> /\ RichWellFormed) =>
    /\ Cardinality(FromFacet) = Len(richFacets)
    /\ \A i \in 1..Len(richFacets) :
         \E j \in FromFacet :
           /\ richContent[j].type = FacetType(richFacets[i].features)
           /\ richContent[j].text = substring(richText, richFacets[i].index.byteStart,
                                              richFacets[i].index.byteEnd)
    /\ JoinedTexts(richContent) = richText
====
